---- MODULE Spec2Model ----
(***************************************************************************)
(* Model of chezzijr/matrix-multiplication: the dense Matrix container,    *)
(* the naive and Strassen multiply families under their execution modes,   *)
(* the dispatcher, the verification suite and the MPI program around them. *)
(* Matrix entries are integers (every double operation used here is exact  *)
(* on small integers).                                                     *)
(***************************************************************************)
EXTENDS Integers, Sequences, FiniteSets, TLC

\* ------------------------------------------------------------------ bounds
MaxDim == 3        \* m, k, n of the small operands range over 0..MaxDim
MaxBlock == 4      \* opt.block_size ranges over 1..MaxBlock
MaxProcs == 3      \* MPI communicator size ranges over 1..MaxProcs
MaxSeed == 1       \* operand contents are drawn from seeds 0..MaxSeed

\* ------------------------------------------------------- config.hpp enums
NAIVE == 0
STRASSEN == 1
OPENBLAS == 2
SEQUENTIAL == 0
OPENMP == 1
MPI == 2
HYBRID == 3

Algorithm == {NAIVE, STRASSEN, OPENBLAS}
ExecutionMode == {SEQUENTIAL, OPENMP, MPI, HYBRID}

\* what() of the std::runtime_error each failure throws
DimensionMismatch == "Matrix dimensions incompatible for multiplication"
NonSquareInput == "Strassen algorithm requires square matrices of same size"
InvalidAlgorithmModeCombination == "Invalid algorithm/mode combination"
AddMismatch == "Matrix dimensions must match for addition"
SubMismatch == "Matrix dimensions must match for subtraction"

Min(a, b) == IF a < b THEN a ELSE b
Max(a, b) == IF a > b THEN a ELSE b
Abs(a) == IF a < 0 THEN -a ELSE a

\* --------------------------------------------------------------- Matrix
\* A matrix is its three members: rows_, cols_ and the row-major buffer data_
\* (a sequence, buffer index x of the code is position x + 1).
Vec(f, len) == SubSeq(f, 1, len)

Matrix(r, c) == [rows |-> r, cols |-> c, data |-> Vec([x \in 1..(r * c) |-> 0], r * c)]

index(M, row, col) == row * M.cols + col

at(M, row, col) == M.data[index(M, row, col) + 1]

is_square(M) == M.rows = M.cols

size(M) == M.rows

zero(M) == [M EXCEPT !.data = Vec([x \in 1..Len(M.data) |-> 0], Len(M.data))]

\* the row and column of buffer position x (1-based) in a matrix of c columns
RowOf(x, c) == (x - 1) \div c
ColOf(x, c) == (x - 1) % c

\* sum += A(i, t) * B(t, j) for t = lo, lo+1, ..., hi-1, in that order
RECURSIVE Accumulate(_, _, _, _, _, _, _)
Accumulate(sum, A, B, i, j, lo, hi) ==
    IF lo >= hi THEN sum
    ELSE Accumulate(sum + at(A, i, lo) * at(B, lo, j), A, B, i, j, lo + 1, hi)

\* a throw, and a normal return of a matrix
Throw(msg) == [err |-> msg]
Return(M) == [err |-> "", val |-> M]
\* the same, after omp_set_num_threads(num_threads) has configured the pool
ReturnOmp(M, num_threads) == [err |-> "", val |-> M, omp |-> num_threads]

\* OptimizationOptions
Opt(blocking, bs) == [cache_friendly |-> blocking, use_blocking |-> blocking, block_size |-> bs]

\* a faulty variant: every block runs its products to the end of the row, k_max = k
seq_block_whole_k(C, A, B, m, n, k, bs, ii, jj, kk) ==
    [C EXCEPT !.data = Vec([x \in 1..Len(C.data) |->
            LET i == RowOf(x, C.cols)
                j == ColOf(x, C.cols)
            IN IF i >= ii /\ i < Min(ii + bs, m) /\ j >= jj /\ j < Min(jj + bs, n)
               THEN Accumulate(C.data[x], A, B, i, j, kk, k)
               ELSE C.data[x]], Len(C.data))]

\* a faulty variant: the block restarts its sum at 0.0 instead of reading C(i, j)
seq_block_restart(C, A, B, m, n, k, bs, ii, jj, kk) ==
    LET i_max == Min(ii + bs, m)
        j_max == Min(jj + bs, n)
        k_max == Min(kk + bs, k)
    IN [C EXCEPT !.data = Vec([x \in 1..Len(C.data) |->
            LET i == RowOf(x, C.cols)
                j == ColOf(x, C.cols)
            IN IF i >= ii /\ i < i_max /\ j >= jj /\ j < j_max
               THEN Accumulate(0, A, B, i, j, kk, k_max)
               ELSE C.data[x]], Len(C.data))]

\* ------------------------------------------------------- naive::sequential
\* one (ii, jj, kk) block: every cell of the block reads C(i, j), adds the
\* kk..k_max products and writes C(i, j) back
seq_block(C, A, B, m, n, k, bs, ii, jj, kk) ==
    LET i_max == Min(ii + bs, m)
        j_max == Min(jj + bs, n)
        k_max == Min(kk + bs, k)
    IN [C EXCEPT !.data = Vec([x \in 1..Len(C.data) |->
            LET i == RowOf(x, C.cols)
                j == ColOf(x, C.cols)
            IN IF i >= ii /\ i < i_max /\ j >= jj /\ j < j_max
               THEN Accumulate(C.data[x], A, B, i, j, kk, k_max)
               ELSE C.data[x]], Len(C.data))]

\* the three block loops, ii outermost, kk innermost (the test of C1.rows is
\* never true: it makes the evaluator finish one iteration before the next)
RECURSIVE seq_kk_loop(_, _, _, _, _, _, _, _, _, _)
seq_kk_loop(C, A, B, m, n, k, bs, ii, jj, kk) ==
    IF kk >= k THEN C
    ELSE LET C1 == seq_block(C, A, B, m, n, k, bs, ii, jj, kk)
         IN IF C1.rows < 0 THEN C1 ELSE seq_kk_loop(C1, A, B, m, n, k, bs, ii, jj, kk + bs)

RECURSIVE seq_jj_loop(_, _, _, _, _, _, _, _, _)
seq_jj_loop(C, A, B, m, n, k, bs, ii, jj) ==
    IF jj >= n THEN C
    ELSE LET C1 == seq_kk_loop(C, A, B, m, n, k, bs, ii, jj, 0)
         IN IF C1.rows < 0 THEN C1 ELSE seq_jj_loop(C1, A, B, m, n, k, bs, ii, jj + bs)

RECURSIVE seq_ii_loop(_, _, _, _, _, _, _, _)
seq_ii_loop(C, A, B, m, n, k, bs, ii) ==
    IF ii >= m THEN C
    ELSE LET C1 == seq_jj_loop(C, A, B, m, n, k, bs, ii, 0)
         IN IF C1.rows < 0 THEN C1 ELSE seq_ii_loop(C1, A, B, m, n, k, bs, ii + bs)

seq_blocked(C, A, B, m, n, k, bs) == seq_ii_loop(C, A, B, m, n, k, bs, 0)

\* the standard ijk loops
seq_standard(C, A, B, m, n, k) ==
    [C EXCEPT !.data = Vec([x \in 1..Len(C.data) |->
        Accumulate(0, A, B, RowOf(x, n), ColOf(x, n), 0, k)], Len(C.data))]

naive_sequential(A, B, opt) ==
    IF A.cols # B.rows THEN Throw(DimensionMismatch)
    ELSE LET m == A.rows
             n == B.cols
             k == A.cols
             C == zero(Matrix(m, n))
         IN IF opt.cache_friendly /\ opt.use_blocking
            THEN Return(seq_blocked(C, A, B, m, n, k, opt.block_size))
            ELSE Return(seq_standard(C, A, B, m, n, k))

\* ------------------------------------------- Matrix arithmetic, submatrix
\* operator+ and operator-: a new matrix, or a throw on unequal shapes
plus(X, Y) ==
    IF X.rows # Y.rows \/ X.cols # Y.cols THEN Throw(AddMismatch)
    ELSE Return([rows |-> X.rows, cols |-> X.cols,
                 data |-> Vec([x \in 1..Len(X.data) |-> X.data[x] + Y.data[x]], Len(X.data))])

minus(X, Y) ==
    IF X.rows # Y.rows \/ X.cols # Y.cols THEN Throw(SubMismatch)
    ELSE Return([rows |-> X.rows, cols |-> X.cols,
                 data |-> Vec([x \in 1..Len(X.data) |-> X.data[x] - Y.data[x]], Len(X.data))])

\* the half-open region [row_start, row_end) x [col_start, col_end), copied
submatrix(M, row_start, col_start, row_end, col_end) ==
    LET sub_rows == row_end - row_start
        sub_cols == col_end - col_start
    IN [rows |-> sub_rows, cols |-> sub_cols,
        data |-> Vec([x \in 1..(sub_rows * sub_cols) |->
                    at(M, row_start + RowOf(x, sub_cols), col_start + ColOf(x, sub_cols))],
                    sub_rows * sub_cols)]

\* a faulty variant: the rows of sub are written from row 0 of M
set_submatrix_from_row_zero(M, row_start, col_start, sub) ==
    [M EXCEPT !.data = Vec([x \in 1..Len(M.data) |->
        LET i == RowOf(x, M.cols)
            j == ColOf(x, M.cols) - col_start
        IN IF i >= 0 /\ i < sub.rows /\ j >= 0 /\ j < sub.cols
           THEN at(sub, i, j) ELSE M.data[x]], Len(M.data))]

\* overwrite the region of M at (row_start, col_start) with sub
set_submatrix(M, row_start, col_start, sub) ==
    [M EXCEPT !.data = Vec([x \in 1..Len(M.data) |->
        LET i == RowOf(x, M.cols) - row_start
            j == ColOf(x, M.cols) - col_start
        IN IF i >= 0 /\ i < sub.rows /\ j >= 0 /\ j < sub.cols
           THEN at(sub, i, j) ELSE M.data[x]], Len(M.data))]

\* ----------------------------------------------------------- naive::openmp
\* The parallel-for hands every (ii, jj) block pair, or every (i, j) cell, to
\* one worker; the iteration of a cell's block runs all its kk blocks itself.
RECURSIVE omp_kk_loop(_, _, _, _, _, _, _, _)
omp_kk_loop(sum, A, B, i, j, k, bs, kk) ==
    IF kk >= k THEN sum
    ELSE omp_kk_loop(Accumulate(sum, A, B, i, j, kk, Min(kk + bs, k)), A, B, i, j, k, bs, kk + bs)

omp_blocked(C, A, B, m, n, k, bs) ==
    [C EXCEPT !.data = Vec([x \in 1..Len(C.data) |->
        omp_kk_loop(C.data[x], A, B, RowOf(x, n), ColOf(x, n), k, bs, 0)], Len(C.data))]

omp_standard(C, A, B, m, n, k) ==
    [C EXCEPT !.data = Vec([x \in 1..Len(C.data) |->
        Accumulate(0, A, B, RowOf(x, n), ColOf(x, n), 0, k)], Len(C.data))]

naive_openmp(A, B, opt, num_threads) ==
    IF A.cols # B.rows THEN Throw(DimensionMismatch)
    ELSE LET m == A.rows
             n == B.cols
             k == A.cols
             C == zero(Matrix(m, n))
         IN IF opt.cache_friendly /\ opt.use_blocking
            THEN ReturnOmp(omp_blocked(C, A, B, m, n, k, opt.block_size), num_threads)
            ELSE ReturnOmp(omp_standard(C, A, B, m, n, k), num_threads)

\* -------------------------------------------------------- strassen::openmp
STRASSEN_OMP_THRESHOLD == 64

\* A padded with one zero row and one zero column
pad(M, n) ==
    LET P0 == zero(Matrix(n + 1, n + 1))
    IN [P0 EXCEPT !.data = Vec([x \in 1..Len(P0.data) |->
        IF RowOf(x, n + 1) < n /\ ColOf(x, n + 1) < n
        THEN at(M, RowOf(x, n + 1), ColOf(x, n + 1)) ELSE P0.data[x]], Len(P0.data))]

\* a faulty variant: the block is taken from row 1 and column 1 on
crop_lower_right(Cp, n) ==
    LET C0 == Matrix(n, n)
    IN [C0 EXCEPT !.data = Vec([x \in 1..Len(C0.data) |->
        at(Cp, RowOf(x, n) + 1, ColOf(x, n) + 1)], Len(C0.data))]

\* the top-left n x n block of the padded result
crop(Cp, n) ==
    LET C0 == Matrix(n, n)
    IN [C0 EXCEPT !.data = Vec([x \in 1..Len(C0.data) |->
        at(Cp, RowOf(x, n), ColOf(x, n))], Len(C0.data))]

\* the four result quadrants from the seven products
quadrant_C11(M1, M4, M5, M7) == plus(minus(plus(M1, M4).val, M5).val, M7).val
\* a faulty variant: a sign slip in the C12 quadrant
quadrant_C12_sign(M3, M5) == minus(M3, M5).val
quadrant_C12(M3, M5) == plus(M3, M5).val
quadrant_C21(M2, M4) == plus(M2, M4).val
quadrant_C22(M1, M2, M3, M6) == plus(plus(minus(M1, M2).val, M3).val, M6).val

combine(n, half, C11, C12, C21, C22) ==
    set_submatrix(set_submatrix(set_submatrix(set_submatrix(
        Matrix(n, n), 0, 0, C11), 0, half, C12), half, 0, C21), half, half, C22)

RECURSIVE strassen_recursive_omp(_, _, _, _)
strassen_recursive_omp(X, Y, opt, num_threads) ==
    LET n == X.rows
    IN IF n <= STRASSEN_OMP_THRESHOLD THEN naive_openmp(X, Y, opt, num_threads).val
       ELSE IF n % 2 # 0
       THEN crop(strassen_recursive_omp(pad(X, n), pad(Y, n), opt, num_threads), n)
       ELSE LET half == n \div 2
                A11 == submatrix(X, 0, 0, half, half)
                A12 == submatrix(X, 0, half, half, n)
                A21 == submatrix(X, half, 0, n, half)
                A22 == submatrix(X, half, half, n, n)
                B11 == submatrix(Y, 0, 0, half, half)
                B12 == submatrix(Y, 0, half, half, n)
                B21 == submatrix(Y, half, 0, n, half)
                B22 == submatrix(Y, half, half, n, n)
                nt == num_threads \div 7 + 1
                M1 == strassen_recursive_omp(plus(A11, A22).val, plus(B11, B22).val, opt, nt)
                M2 == strassen_recursive_omp(plus(A21, A22).val, B11, opt, nt)
                M3 == strassen_recursive_omp(A11, minus(B12, B22).val, opt, nt)
                M4 == strassen_recursive_omp(A22, minus(B21, B11).val, opt, nt)
                M5 == strassen_recursive_omp(plus(A11, A12).val, B22, opt, nt)
                M6 == strassen_recursive_omp(minus(A21, A11).val, plus(B11, B12).val, opt, nt)
                M7 == strassen_recursive_omp(minus(A12, A22).val, plus(B21, B22).val, opt, nt)
            IN combine(n, half, quadrant_C11(M1, M4, M5, M7), quadrant_C12(M3, M5),
                       quadrant_C21(M2, M4), quadrant_C22(M1, M2, M3, M6))

\* a faulty variant: the pool is configured before the shape check
strassen_openmp_pool_first(A0, B0, opt, num_threads) ==
    IF ~is_square(A0) \/ ~is_square(B0) \/ size(A0) # size(B0)
    THEN [err |-> NonSquareInput, omp |-> num_threads]
    ELSE ReturnOmp(strassen_recursive_omp(A0, B0, opt, num_threads), num_threads)

strassen_openmp(A0, B0, opt, num_threads) ==
    IF ~is_square(A0) \/ ~is_square(B0) \/ size(A0) # size(B0) THEN Throw(NonSquareInput)
    ELSE ReturnOmp(strassen_recursive_omp(A0, B0, opt, num_threads), num_threads)

\* ------------------------------------------------ row partition (MPI variants)
\* The same four lines open naive::mpi, strassen::mpi and strassen::hybrid.
rows_per_proc(m, sz) == m \div sz
remainder(m, sz) == m % sz
local_rows(rank, m, sz) == rows_per_proc(m, sz) + (IF rank < remainder(m, sz) THEN 1 ELSE 0)
\* a faulty variant: the remainder rows are forgotten in the offset
row_offset_no_remainder(rank, m, sz) == rank * rows_per_proc(m, sz)
row_offset(rank, m, sz) == rank * rows_per_proc(m, sz) + Min(rank, remainder(m, sz))

\* the receive side: one count and one displacement per rank i (vector slot i + 1)
\* a faulty variant: off by one in the remainder test
proc_rows_off_by_one(i, m, sz) == rows_per_proc(m, sz) + (IF i <= remainder(m, sz) THEN 1 ELSE 0)
proc_rows(i, m, sz) == rows_per_proc(m, sz) + (IF i < remainder(m, sz) THEN 1 ELSE 0)
sendcounts(m, n, sz) == [i \in 1..sz |-> proc_rows(i - 1, m, sz) * n]
displs(m, n, sz) == [i \in 1..sz |-> ((i - 1) * rows_per_proc(m, sz) + Min(i - 1, remainder(m, sz))) * n]

\* A_local: rows [offset, offset + lrows) of A
local_slice(M, offset, lrows, k) ==
    LET L0 == Matrix(lrows, k)
    IN [L0 EXCEPT !.data = Vec([x \in 1..Len(L0.data) |->
        at(M, offset + RowOf(x, k), ColOf(x, k))], Len(L0.data))]

\* what a rank holds when it calls MPI_Allgatherv: the send buffer and count,
\* the receive buffer C and its own counts and displacements
\* a faulty variant: the send count uses the row total where the code has the column count
Frame_sendcount_rows(lrows, offset, Cl, n, m, sz, how) ==
    [local_rows |-> lrows, row_offset |-> offset, C_local |-> Cl,
     sendcount |-> lrows * m, sendcounts |-> sendcounts(m, n, sz),
     displs |-> displs(m, n, sz), C |-> zero(Matrix(m, n)), local_algo |-> how]
Frame(lrows, offset, Cl, n, m, sz, how) ==
    [local_rows |-> lrows, row_offset |-> offset, C_local |-> Cl,
     sendcount |-> lrows * n, sendcounts |-> sendcounts(m, n, sz),
     displs |-> displs(m, n, sz), C |-> zero(Matrix(m, n)), local_algo |-> how]

Gather(F) == [err |-> "", frame |-> F]
GatherOmp(F, num_threads) == [err |-> "", frame |-> F, omp |-> num_threads]

\* ---------------------------------------------------------------- naive::mpi
mpi_block(C, A_local, B_local, lrows, n, k, bs, ii, jj, kk) ==
    LET i_max == Min(ii + bs, lrows)
        j_max == Min(jj + bs, n)
        k_max == Min(kk + bs, k)
    IN [C EXCEPT !.data = Vec([x \in 1..Len(C.data) |->
            LET i == RowOf(x, C.cols)
                j == ColOf(x, C.cols)
            IN IF i >= ii /\ i < i_max /\ j >= jj /\ j < j_max
               THEN Accumulate(C.data[x], A_local, B_local, i, j, kk, k_max)
               ELSE C.data[x]], Len(C.data))]

RECURSIVE mpi_kk_loop(_, _, _, _, _, _, _, _, _, _)
mpi_kk_loop(C, A_local, B_local, lrows, n, k, bs, ii, jj, kk) ==
    IF kk >= k THEN C
    ELSE LET C1 == mpi_block(C, A_local, B_local, lrows, n, k, bs, ii, jj, kk)
         IN IF C1.rows < 0 THEN C1 ELSE mpi_kk_loop(C1, A_local, B_local, lrows, n, k, bs, ii, jj, kk + bs)

RECURSIVE mpi_jj_loop(_, _, _, _, _, _, _, _, _)
mpi_jj_loop(C, A_local, B_local, lrows, n, k, bs, ii, jj) ==
    IF jj >= n THEN C
    ELSE LET C1 == mpi_kk_loop(C, A_local, B_local, lrows, n, k, bs, ii, jj, 0)
         IN IF C1.rows < 0 THEN C1 ELSE mpi_jj_loop(C1, A_local, B_local, lrows, n, k, bs, ii, jj + bs)

RECURSIVE mpi_ii_loop(_, _, _, _, _, _, _, _)
mpi_ii_loop(C, A_local, B_local, lrows, n, k, bs, ii) ==
    IF ii >= lrows THEN C
    ELSE LET C1 == mpi_jj_loop(C, A_local, B_local, lrows, n, k, bs, ii, 0)
         IN IF C1.rows < 0 THEN C1 ELSE mpi_ii_loop(C1, A_local, B_local, lrows, n, k, bs, ii + bs)

mpi_blocked(C, A_local, B_local, lrows, n, k, bs) ==
    mpi_ii_loop(C, A_local, B_local, lrows, n, k, bs, 0)

mpi_standard(C, A_local, B_local, lrows, n, k) ==
    [C EXCEPT !.data = Vec([x \in 1..Len(C.data) |->
        Accumulate(0, A_local, B_local, RowOf(x, n), ColOf(x, n), 0, k)], Len(C.data))]

\* a faulty variant: the check reads > where the code has !=
naive_mpi_loose_check(A0, B0, opt, rank, sz) ==
    IF A0.cols > B0.rows THEN Throw(DimensionMismatch)
    ELSE LET m == A0.rows
             n == B0.cols
             k == A0.cols
             lrows == local_rows(rank, m, sz)
             offset == row_offset(rank, m, sz)
             A_local == local_slice(A0, offset, lrows, k)
             C0 == zero(Matrix(lrows, n))
         IN Gather(Frame(lrows, offset, mpi_standard(C0, A_local, B0, lrows, n, k), n, m, sz, "naive"))

\* naive::mpi up to its MPI_Allgatherv call
naive_mpi(A0, B0, opt, rank, sz) ==
    IF A0.cols # B0.rows THEN Throw(DimensionMismatch)
    ELSE LET m == A0.rows
             n == B0.cols
             k == A0.cols
             lrows == local_rows(rank, m, sz)
             offset == row_offset(rank, m, sz)
             A_local == local_slice(A0, offset, lrows, k)
             C0 == zero(Matrix(lrows, n))
             C_local == IF opt.cache_friendly /\ opt.use_blocking
                        THEN mpi_blocked(C0, A_local, B0, lrows, n, k, opt.block_size)
                        ELSE mpi_standard(C0, A_local, B0, lrows, n, k)
         IN Gather(Frame(lrows, offset, C_local, n, m, sz, "naive"))

\* ------------------------------------------------------------- naive::hybrid
\* The row partition of naive::mpi around the shared-parallel local multiply.
naive_hybrid(A0, B0, opt, num_threads, rank, sz) ==
    IF A0.cols # B0.rows THEN Throw(DimensionMismatch)
    ELSE LET m == A0.rows
             n == B0.cols
             k == A0.cols
             lrows == local_rows(rank, m, sz)
             offset == row_offset(rank, m, sz)
             A_local == local_slice(A0, offset, lrows, k)
         IN GatherOmp(Frame(lrows, offset, naive_openmp(A_local, B0, opt, num_threads).val,
                            n, m, sz, "naive"), num_threads)

\* ------------------------------------------------------ strassen::sequential
STRASSEN_SEQ_THRESHOLD == 64

RECURSIVE strassen_recursive_seq(_, _, _)
strassen_recursive_seq(X, Y, opt) ==
    LET n == X.rows
    IN IF n <= STRASSEN_SEQ_THRESHOLD THEN naive_sequential(X, Y, opt).val
       ELSE IF n % 2 # 0
       THEN crop(strassen_recursive_seq(pad(X, n), pad(Y, n), opt), n)
       ELSE LET half == n \div 2
                A11 == submatrix(X, 0, 0, half, half)
                A12 == submatrix(X, 0, half, half, n)
                A21 == submatrix(X, half, 0, n, half)
                A22 == submatrix(X, half, half, n, n)
                B11 == submatrix(Y, 0, 0, half, half)
                B12 == submatrix(Y, 0, half, half, n)
                B21 == submatrix(Y, half, 0, n, half)
                B22 == submatrix(Y, half, half, n, n)
                M1 == strassen_recursive_seq(plus(A11, A22).val, plus(B11, B22).val, opt)
                M2 == strassen_recursive_seq(plus(A21, A22).val, B11, opt)
                M3 == strassen_recursive_seq(A11, minus(B12, B22).val, opt)
                M4 == strassen_recursive_seq(A22, minus(B21, B11).val, opt)
                M5 == strassen_recursive_seq(plus(A11, A12).val, B22, opt)
                M6 == strassen_recursive_seq(minus(A21, A11).val, plus(B11, B12).val, opt)
                M7 == strassen_recursive_seq(minus(A12, A22).val, plus(B21, B22).val, opt)
            IN combine(n, half, quadrant_C11(M1, M4, M5, M7), quadrant_C12(M3, M5),
                       quadrant_C21(M2, M4), quadrant_C22(M1, M2, M3, M6))

strassen_sequential(A0, B0, opt) ==
    IF ~is_square(A0) \/ ~is_square(B0) \/ size(A0) # size(B0) THEN Throw(NonSquareInput)
    ELSE Return(strassen_recursive_seq(A0, B0, opt))

\* -------------------------------------------------------------- strassen::mpi
\* a faulty variant: rank 0 takes the recursion whatever its slice, and the
\* throw of the recursion on a slice that is not square leaves the function
strassen_mpi_first_rank(A0, B0, opt, rank, sz) ==
    IF ~is_square(A0) \/ ~is_square(B0) \/ size(A0) # size(B0) THEN Throw(NonSquareInput)
    ELSE LET n == A0.rows
             lrows == local_rows(rank, n, sz)
             offset == row_offset(rank, n, sz)
             A_local == local_slice(A0, offset, lrows, n)
             local == strassen_sequential(A_local, B0, opt)
         IN IF rank = 0
            THEN IF local.err # "" THEN local
                 ELSE Gather(Frame(lrows, offset, local.val, n, n, sz, "strassen"))
            ELSE Gather(Frame(lrows, offset, naive_sequential(A_local, B0, opt).val,
                              n, n, sz, "naive"))

\* strassen::mpi up to its MPI_Allgatherv call
strassen_mpi(A0, B0, opt, rank, sz) ==
    IF ~is_square(A0) \/ ~is_square(B0) \/ size(A0) # size(B0) THEN Throw(NonSquareInput)
    ELSE LET n == A0.rows
             lrows == local_rows(rank, n, sz)
             offset == row_offset(rank, n, sz)
             A_local == local_slice(A0, offset, lrows, n)
         IN IF lrows = n
            THEN Gather(Frame(lrows, offset, strassen_sequential(A_local, B0, opt).val,
                              n, n, sz, "strassen"))
            ELSE Gather(Frame(lrows, offset, naive_sequential(A_local, B0, opt).val,
                              n, n, sz, "naive"))

\* ----------------------------------------------------------- strassen::hybrid
\* a faulty variant: the recursion is taken on a communicator of one rank only
strassen_hybrid_single_rank(A0, B0, opt, num_threads, rank, sz) ==
    IF ~is_square(A0) \/ ~is_square(B0) \/ size(A0) # size(B0) THEN Throw(NonSquareInput)
    ELSE LET n == A0.rows
             lrows == local_rows(rank, n, sz)
             offset == row_offset(rank, n, sz)
             A_local == local_slice(A0, offset, lrows, n)
         IN IF sz = 1
            THEN GatherOmp(Frame(lrows, offset, strassen_openmp(A_local, B0, opt, num_threads).val,
                                 n, n, sz, "strassen"), num_threads)
            ELSE GatherOmp(Frame(lrows, offset, naive_openmp(A_local, B0, opt, num_threads).val,
                                 n, n, sz, "naive"), num_threads)

\* strassen::hybrid up to its MPI_Allgatherv call
strassen_hybrid(A0, B0, opt, num_threads, rank, sz) ==
    IF ~is_square(A0) \/ ~is_square(B0) \/ size(A0) # size(B0) THEN Throw(NonSquareInput)
    ELSE LET n == A0.rows
             lrows == local_rows(rank, n, sz)
             offset == row_offset(rank, n, sz)
             A_local == local_slice(A0, offset, lrows, n)
         IN IF lrows = n
            THEN GatherOmp(Frame(lrows, offset, strassen_openmp(A_local, B0, opt, num_threads).val,
                                 n, n, sz, "strassen"), num_threads)
            ELSE GatherOmp(Frame(lrows, offset, naive_openmp(A_local, B0, opt, num_threads).val,
                                 n, n, sz, "naive"), num_threads)

\* ---------------------------------------------------------- openblas::multiply
\* cblas_dgemm(RowMajor, NoTrans, NoTrans, m, n, k, 1.0, A, lda, B, ldb, 0.0, C, ldc):
\* the library's contract, C[i*ldc + j] = sum over t of A[i*lda + t] * B[t*ldb + j]
RECURSIVE dgemm_dot(_, _, _, _, _, _, _, _, _)
dgemm_dot(sum, Abuf, lda, Bbuf, ldb, i, j, t, k) ==
    IF t >= k THEN sum
    ELSE dgemm_dot(sum + Abuf[i * lda + t + 1] * Bbuf[t * ldb + j + 1],
                   Abuf, lda, Bbuf, ldb, i, j, t + 1, k)

cblas_dgemm(m, n, k, Abuf, lda, Bbuf, ldb, Cbuf, ldc) ==
    Vec([x \in 1..Len(Cbuf) |->
        IF RowOf(x, ldc) < m /\ ColOf(x, ldc) < n
        THEN dgemm_dot(0, Abuf, lda, Bbuf, ldb, RowOf(x, ldc), ColOf(x, ldc), 0, k)
        ELSE Cbuf[x]], Len(Cbuf))

openblas_multiply(A0, B0) ==
    IF A0.cols # B0.rows THEN Throw(DimensionMismatch)
    ELSE LET m == A0.rows
             n == B0.cols
             k == A0.cols
             C == zero(Matrix(m, n))
         IN Return([C EXCEPT !.data = cblas_dgemm(m, n, k, A0.data, k, B0.data, n, C.data, n)])

\* a faulty variant: the reference engine is registered for SEQUENTIAL only
multiply_reference_sequential_only(A0, B0, config, rank, sz) ==
    CASE config.algorithm = NAIVE ->
           (CASE config.mode = SEQUENTIAL -> naive_sequential(A0, B0, config.optimization)
              [] config.mode = OPENMP -> naive_openmp(A0, B0, config.optimization, config.num_threads)
              [] config.mode = MPI -> naive_mpi(A0, B0, config.optimization, rank, sz)
              [] config.mode = HYBRID ->
                   naive_hybrid(A0, B0, config.optimization, config.num_threads, rank, sz)
              [] OTHER -> Throw(InvalidAlgorithmModeCombination))
      [] config.algorithm = STRASSEN ->
           (CASE config.mode = SEQUENTIAL -> strassen_sequential(A0, B0, config.optimization)
              [] config.mode = OPENMP -> strassen_openmp(A0, B0, config.optimization, config.num_threads)
              [] config.mode = MPI -> strassen_mpi(A0, B0, config.optimization, rank, sz)
              [] config.mode = HYBRID ->
                   strassen_hybrid(A0, B0, config.optimization, config.num_threads, rank, sz)
              [] OTHER -> Throw(InvalidAlgorithmModeCombination))
      [] config.algorithm = OPENBLAS /\ config.mode = SEQUENTIAL -> openblas_multiply(A0, B0)
      [] OTHER -> Throw(InvalidAlgorithmModeCombination)

\* ------------------------------------------------------------ matmul::multiply
\* The dispatcher, on rank `rank` of `sz`: a throw, a returned matrix, or (the
\* MPI variants) the frame with which the rank enters MPI_Allgatherv.
multiply(A0, B0, config, rank, sz) ==
    CASE config.algorithm = NAIVE ->
           (CASE config.mode = SEQUENTIAL -> naive_sequential(A0, B0, config.optimization)
              [] config.mode = OPENMP -> naive_openmp(A0, B0, config.optimization, config.num_threads)
              [] config.mode = MPI -> naive_mpi(A0, B0, config.optimization, rank, sz)
              [] config.mode = HYBRID ->
                   naive_hybrid(A0, B0, config.optimization, config.num_threads, rank, sz)
              [] OTHER -> Throw(InvalidAlgorithmModeCombination))
      [] config.algorithm = STRASSEN ->
           (CASE config.mode = SEQUENTIAL -> strassen_sequential(A0, B0, config.optimization)
              [] config.mode = OPENMP -> strassen_openmp(A0, B0, config.optimization, config.num_threads)
              [] config.mode = MPI -> strassen_mpi(A0, B0, config.optimization, rank, sz)
              [] config.mode = HYBRID ->
                   strassen_hybrid(A0, B0, config.optimization, config.num_threads, rank, sz)
              [] OTHER -> Throw(InvalidAlgorithmModeCombination))
      [] config.algorithm = OPENBLAS -> openblas_multiply(A0, B0)
      [] OTHER -> Throw(InvalidAlgorithmModeCombination)

\* ------------------------------------------------------------- MPI_Allgatherv
\* What one rank sends: sendcount elements of its send buffer.
Contribution(F) == [kind |-> "allgatherv", count |-> F.sendcount, data |-> F.C_local.data]

\* The receiving rank stores rank q's block at displs[q], recvcounts[q] long.
RECURSIVE allgatherv_store(_, _, _, _, _, _)
allgatherv_store(buf, recvcounts, disp, contrib, q, sz) ==
    IF q >= sz THEN buf
    ELSE allgatherv_store(
            Vec([x \in 1..Len(buf) |->
                IF x > disp[q + 1] /\ x <= disp[q + 1] + recvcounts[q + 1]
                   /\ x - disp[q + 1] <= Len(contrib[q].data)
                THEN contrib[q].data[x - disp[q + 1]] ELSE buf[x]], Len(buf)),
            recvcounts, disp, contrib, q + 1, sz)

\* MPI raises an error when a receive count differs from what the sender sent
allgatherv_matches(recvcounts, contrib, sz) ==
    \A q \in 0..(sz - 1) : contrib[q].count = recvcounts[q + 1]

\* ------------------------------------------------------------ operands
\* an r x c operand with varied small entries, positive and negative
Gen(r, c, seed) ==
    [rows |-> r, cols |-> c,
     data |-> Vec([x \in 1..(r * c) |->
                ((x * x + (seed + 1) * x) % 7) + ((x \div 3) % 4) - 4], r * c)]

\* the value parse_arguments leaves in config.num_threads
default_threads(mode) == IF mode = OPENMP \/ mode = HYBRID THEN 4 ELSE 1

Config(algorithm, mode, opt) ==
    [algorithm |-> algorithm, mode |-> mode, optimization |-> opt,
     num_threads |-> default_threads(mode)]

\* OptimizationOptions as constructed (blocking off, block_size 64) and with
\* blocking switched on for every block size up to MaxBlock
DefaultOpt == Opt(FALSE, 64)
Opts == {DefaultOpt} \cup {Opt(TRUE, bs) : bs \in 1..MaxBlock}

\* operand shapes <<m, k, kb, n>>: A is m x k, B is kb x n; kb is k, or differs
Shapes == {s \in (0..MaxDim) \X (0..MaxDim) \X (0..MaxDim) \X (0..MaxDim) :
              s[3] = s[2] \/ s[3] = (s[2] + 1) % (MaxDim + 1)}

Distributed(cfg) == cfg.algorithm \in {NAIVE, STRASSEN} /\ cfg.mode \in {MPI, HYBRID}

\* every declared (algorithm, mode) pair, and the values outside the enums
Configs ==
    {Config(a, md, o) : a \in {NAIVE, STRASSEN}, md \in ExecutionMode, o \in Opts}
    \cup {Config(OPENBLAS, md, DefaultOpt) : md \in ExecutionMode}
    \cup {Config(a, HYBRID + 1, DefaultOpt) : a \in Algorithm}
    \cup {Config(OPENBLAS + 1, md, DefaultOpt) : md \in ExecutionMode}

\* ================================================================= state
VARIABLES
    A, B,          \* the operands, identical on every rank
    config,        \* the Config every rank passes to multiply
    nprocs,        \* size of MPI_COMM_WORLD
    pc,            \* per rank: where it is
    frame,         \* per rank: its locals while in MPI_Allgatherv
    result,        \* per rank: what its multiply call produced
    omp_threads,   \* per rank: the pool size set by omp_set_num_threads, 0 if never set
    wire,          \* per rank: the collective calls it has entered, in order
    argv,          \* the command line rank 0 parses
    flags,         \* per rank: the Config fields main() never broadcasts
    suite,         \* rank 0: the locals of run_verification_suite
    aborted,       \* MPI_Abort has been called on MPI_COMM_WORLD
    mem,           \* the Matrix objects of a caller of the Matrix class, and what it got back
    team           \* a loop nest or an OpenMP region at work: its threads and its shared data

\* the variables of a run of the program, and all of them
program == <<A, B, config, nprocs, pc, frame, result, omp_threads, wire, argv, flags, suite, aborted>>
vars == <<A, B, config, nprocs, pc, frame, result, omp_threads, wire, argv, flags, suite, aborted,
          mem, team>>

\* no Matrix object under test, no thread team at work
NoMem == [at |-> "none"]
NoTeam == [at |-> "none"]

Ranks == 0..(nprocs - 1)
NoFrame == [local_rows |-> -1]
NoResult == [err |-> "pending"]

\* Config as default-constructed: verification_mode and validate_against_openblas
DefaultFlags == [verification_mode |-> FALSE, validate_against_openblas |-> FALSE,
                 validation_performed |-> FALSE, validation_passed |-> FALSE]
NoArgs == [outcome |-> "none"]
NoSuite == [verify_algorithms |-> <<>>, results |-> <<>>, labels |-> <<>>,
            i |-> 0, j |-> 1, all_passed |-> TRUE, reports |-> <<>>, status |-> "",
            rounding |-> <<>>]

InitRanks ==
    /\ pc = [r \in Ranks |-> "call"]
    /\ frame = [r \in Ranks |-> NoFrame]
    /\ result = [r \in Ranks |-> NoResult]
    /\ omp_threads = [r \in Ranks |-> 0]
    /\ wire = [r \in Ranks |-> <<>>]

\* All ranks of a communicator call matmul::multiply with the same operands.
Init ==
    /\ config \in Configs
    /\ nprocs \in (IF Distributed(config) THEN 1..MaxProcs ELSE {1})
    /\ \E s \in Shapes, seed \in 0..MaxSeed :
          /\ A = Gen(s[1], s[2], seed)
          /\ B = Gen(s[3], s[4], seed + 1)
    /\ InitRanks
    /\ argv = NoArgs
    /\ flags = [r \in Ranks |-> DefaultFlags]
    /\ suite = NoSuite
    /\ aborted = FALSE
    /\ mem = NoMem /\ team = NoTeam

\* Rank r's latest collective call is matched: every rank has entered its call of
\* the same ordinal, and it is the same collective.
Matched(r, kind) ==
    \A q \in Ranks : /\ Len(wire[q]) >= Len(wire[r])
                     /\ wire[q][Len(wire[r])].kind = kind

\* Rank r runs multiply up to its return, its throw or its MPI_Allgatherv call.
Call(r) ==
    /\ ~aborted
    /\ pc[r] = "call"
    /\ LET res == multiply(A, B, config, r, nprocs)
       IN /\ omp_threads' = [omp_threads EXCEPT ![r] =
                                IF "omp" \in DOMAIN res THEN res.omp ELSE @]
          /\ IF res.err # ""
             THEN /\ pc' = [pc EXCEPT ![r] = "threw"]
                  /\ result' = [result EXCEPT ![r] = res]
                  /\ UNCHANGED <<frame, wire>>
             ELSE IF "frame" \in DOMAIN res
             THEN /\ pc' = [pc EXCEPT ![r] = "allgather"]
                  /\ frame' = [frame EXCEPT ![r] = res.frame]
                  /\ wire' = [wire EXCEPT ![r] = Append(@, Contribution(res.frame))]
                  /\ UNCHANGED result
             ELSE /\ pc' = [pc EXCEPT ![r] = "returned"]
                  /\ result' = [result EXCEPT ![r] = Return(res.val)]
                  /\ UNCHANGED <<frame, wire>>
    /\ UNCHANGED <<A, B, config, nprocs, argv, flags, suite, aborted>>
    /\ UNCHANGED <<mem, team>>

\* MPI_Allgatherv returns on rank r once every rank has made the matching call.
Allgatherv(r) ==
    /\ ~aborted
    /\ pc[r] = "allgather"
    /\ Matched(r, "allgatherv")
    /\ LET contrib == [q \in Ranks |-> wire[q][Len(wire[r])]]
           F == frame[r]
       IN IF allgatherv_matches(F.sendcounts, contrib, nprocs)
          THEN /\ pc' = [pc EXCEPT ![r] = "returned"]
               /\ result' = [result EXCEPT ![r] = Return([F.C EXCEPT !.data =
                                allgatherv_store(F.C.data, F.sendcounts, F.displs, contrib, 0, nprocs)])]
          ELSE /\ pc' = [pc EXCEPT ![r] = "mpi_error"]
               /\ UNCHANGED result
    /\ UNCHANGED <<A, B, config, nprocs, frame, omp_threads, wire, argv, flags, suite, aborted>>
    /\ UNCHANGED <<mem, team>>

CallStep == \E r \in Ranks : Call(r)
AllgathervStep == \E r \in Ranks : Allgatherv(r)

Next == CallStep \/ AllgathervStep

Spec == Init /\ [][Next]_vars


\* ------------------------------------------------- Strassen across the threshold
\* strassen::openmp, and strassen::hybrid which reaches it when one rank holds
\* every row, on square operands of the small sizes and, with the options as
\* constructed, of the sizes from STRASSEN_OMP_THRESHOLD up to MaxAbove above it.
MaxAbove == 2
ThresholdSizes == STRASSEN_OMP_THRESHOLD..(STRASSEN_OMP_THRESHOLD + MaxAbove)

InitStrassen ==
    /\ config \in {Config(STRASSEN, md, o) : md \in {OPENMP, HYBRID}, o \in Opts}
    /\ \E n \in (0..MaxDim) \cup ThresholdSizes, seed \in 0..MaxSeed :
          /\ n > MaxDim => (seed = 0 /\ config.optimization = DefaultOpt)
          /\ nprocs \in (IF Distributed(config) /\ n <= MaxDim THEN 1..MaxProcs ELSE {1})
          /\ A = Gen(n, n, seed)
          /\ B = Gen(n, n, seed + 1)
    /\ InitRanks
    /\ argv = NoArgs
    /\ flags = [r \in Ranks |-> DefaultFlags]
    /\ suite = NoSuite
    /\ aborted = FALSE
    /\ mem = NoMem /\ team = NoTeam

SpecStrassen == InitStrassen /\ [][Next]_vars

\* ------------------------------------------------- one distributed multiply
\* naive::mpi, strassen::mpi and strassen::hybrid called by every rank of the
\* communicator with the same operands, of shapes the variant accepts.
GatherVariants ==
    {Config(NAIVE, MPI, o) : o \in Opts}
    \cup {Config(STRASSEN, md, o) : md \in {MPI, HYBRID}, o \in Opts}

InitGather ==
    /\ config \in GatherVariants
    /\ nprocs \in 1..MaxProcs
    /\ \E s \in Shapes, seed \in 0..MaxSeed :
          /\ s[3] = s[2]
          /\ config.algorithm = STRASSEN => (s[1] = s[2] /\ s[4] = s[2])
          /\ A = Gen(s[1], s[2], seed)
          /\ B = Gen(s[3], s[4], seed + 1)
    /\ InitRanks
    /\ argv = NoArgs
    /\ flags = [r \in Ranks |-> DefaultFlags]
    /\ suite = NoSuite
    /\ aborted = FALSE
    /\ mem = NoMem /\ team = NoTeam

\* Rank r has a step of Next to take: it has not called multiply yet, or its
\* MPI_Allgatherv call is matched on every rank.
CanStep(r) ==
    /\ ~aborted
    /\ pc[r] = "call" \/ (pc[r] = "allgather" /\ Matched(r, "allgatherv"))

PcValues == {"call", "allgather", "returned", "threw", "mpi_error"}

\* A rank that can take a step moves on.  Every step of Next is such a step, and
\* one is possible exactly when CanStep holds of some rank, so fairness stated
\* on Progress is fairness on Next with the enabling condition written out.
Progress ==
    \E r \in Ranks, v \in PcValues :
        CanStep(r) /\ v # pc[r] /\ pc' = [pc EXCEPT ![r] = v]

\* every MPI process is scheduled: a rank that can take a step eventually does
FairSpec == InitGather /\ [][Next]_vars /\ WF_pc(Progress)


\* ------------------------------------------------------------ Matrix::compare
\* The tolerances are kept as integers over the common denominator TolDen:
\* abs_tolerance 1e-8 is 1 / TolDen and rel_tolerance 1e-5 is 1000 / TolDen.
TolDen == 100000000
abs_tolerance == 1
rel_tolerance == 1000

\* The errors are kept exact, as fractions num / den in lowest terms, where the
\* code rounds to double; rms_error is kept as its square.
RECURSIVE GCD(_, _)
GCD(a, b) == IF b = 0 THEN a ELSE GCD(b, a % b)

Frac(n, d) == LET g == GCD(Abs(n), d) IN [num |-> n \div g, den |-> d \div g]
FracAdd(p, q) == Frac(p.num * q.den + q.num * p.den, p.den * q.den)
FracLess(p, q) == p.num * q.den < q.num * p.den
Zero == Frac(0, 1)

\* What a double of automatic storage holds before anything is assigned to it:
\* any value, the same for every read of it.
Indeterminate == {Frac(v, 1) : v \in {-1, 0, 100}}

\* `ComparisonResult result;` and the assignments that follow it.  failure_rate
\* is not among them: it holds what the storage held.  The error sums are the
\* locals sum_abs_error, sum_rel_error and sum_squared_error.
NoComparison(abs_tol, rel_tol, indeterminate) ==
    [all_close |-> TRUE, num_elements |-> 0, num_failures |-> 0,
     max_abs_error |-> 0, mean_abs_error |-> Zero,
     max_rel_error |-> Zero, mean_rel_error |-> Zero,
     rms_error |-> Zero, failure_rate |-> indeterminate,
     worst_row |-> -1, worst_col |-> -1, worst_value_this |-> 0, worst_value_other |-> 0,
     sum_abs_error |-> 0, sum_rel_error |-> Zero, sum_squared_error |-> 0,
     abs_tolerance |-> abs_tol, rel_tolerance |-> rel_tol]

\* a faulty variant: the sum where the difference belongs
abs_error_of_sum(val_this, val_other) == Abs(val_this + val_other)

\* a faulty variant: the signed difference
abs_error_signed(val_this, val_other) == val_this - val_other

\* `std::abs(val_this - val_other)`
abs_error_of(val_this, val_other) == Abs(val_this - val_other)

\* a faulty variant: an element at the tolerance fails
element_fails_at_tolerance(abs_error, max_val, abs_tol, rel_tol) ==
    abs_error * TolDen >= Max(abs_tol, rel_tol * max_val)

\* `abs_error > std::max(abs_tol, rel_tol * max_val)`
element_fails(abs_error, max_val, abs_tol, rel_tol) ==
    abs_error * TolDen > Max(abs_tol, rel_tol * max_val)

\* a faulty variant: an error equal to the maximum so far replaces it
compare_element_last_wins(res, X, Y, x) ==
    LET val_this == X.data[x]
        val_other == Y.data[x]
        abs_error == abs_error_of(val_this, val_other)
        max_val == Max(Abs(val_this), Abs(val_other))
        rel_error == IF max_val > 0 THEN Frac(abs_error, max_val) ELSE Zero
        fails == element_fails(abs_error, max_val, res.abs_tolerance, res.rel_tolerance)
        worse == abs_error >= res.max_abs_error
    IN [res EXCEPT
          !.all_close = @ /\ ~fails,
          !.num_failures = IF fails THEN @ + 1 ELSE @,
          !.sum_abs_error = @ + abs_error,
          !.sum_rel_error = FracAdd(@, rel_error),
          !.sum_squared_error = @ + abs_error * abs_error,
          !.max_abs_error = IF worse THEN abs_error ELSE @,
          !.worst_row = IF worse THEN RowOf(x, X.cols) ELSE @,
          !.worst_col = IF worse THEN ColOf(x, X.cols) ELSE @,
          !.worst_value_this = IF worse THEN val_this ELSE @,
          !.worst_value_other = IF worse THEN val_other ELSE @,
          !.max_rel_error = IF FracLess(@, rel_error) THEN rel_error ELSE @]

\* one iteration of the element loop, at flat position x of this and other
compare_element(res, X, Y, x) ==
    LET val_this == X.data[x]
        val_other == Y.data[x]
        abs_error == abs_error_of(val_this, val_other)
        max_val == Max(Abs(val_this), Abs(val_other))
        rel_error == IF max_val > 0 THEN Frac(abs_error, max_val) ELSE Zero
        fails == element_fails(abs_error, max_val, res.abs_tolerance, res.rel_tolerance)
        worse == abs_error > res.max_abs_error
    IN [res EXCEPT
          !.all_close = @ /\ ~fails,
          !.num_failures = IF fails THEN @ + 1 ELSE @,
          !.sum_abs_error = @ + abs_error,
          !.sum_rel_error = FracAdd(@, rel_error),
          !.sum_squared_error = @ + abs_error * abs_error,
          !.max_abs_error = IF worse THEN abs_error ELSE @,
          !.worst_row = IF worse THEN RowOf(x, X.cols) ELSE @,
          !.worst_col = IF worse THEN ColOf(x, X.cols) ELSE @,
          !.worst_value_this = IF worse THEN val_this ELSE @,
          !.worst_value_other = IF worse THEN val_other ELSE @,
          !.max_rel_error = IF FracLess(@, rel_error) THEN rel_error ELSE @]

RECURSIVE compare_loop(_, _, _, _)
compare_loop(res, X, Y, x) ==
    IF x > Len(X.data) THEN res
    ELSE LET r1 == compare_element(res, X, Y, x)
         IN IF r1.num_elements < 0 THEN r1 ELSE compare_loop(r1, X, Y, x + 1)

\* the means, computed when there is at least one element
compare_means(res) ==
    IF res.num_elements > 0
    THEN [res EXCEPT
            !.mean_abs_error = Frac(res.sum_abs_error, res.num_elements),
            !.mean_rel_error = Frac(res.sum_rel_error.num,
                                    res.sum_rel_error.den * res.num_elements),
            !.rms_error = Frac(res.sum_squared_error, res.num_elements),
            !.failure_rate = Frac(100 * res.num_failures, res.num_elements)]
    ELSE res

\* Matrix::compare, `this` being X and `other` Y; `indeterminate` is what the
\* storage of the result held when the call began
compare(X, Y, abs_tol, rel_tol, indeterminate) ==
    LET res == NoComparison(abs_tol, rel_tol, indeterminate)
    IN IF X.rows # Y.rows \/ X.cols # Y.cols
       THEN [res EXCEPT !.all_close = FALSE]
       ELSE compare_means(compare_loop([res EXCEPT !.num_elements = Len(X.data)], X, Y, 1))

\* ------------------------------------------- a caller of Matrix::compare
\* No run of the program is under way while the Matrix class or a loop nest is
\* exercised on its own.
Standalone ==
    /\ nprocs = 1
    /\ pc = [r \in Ranks |-> "none"]
    /\ frame = [r \in Ranks |-> NoFrame]
    /\ result = [r \in Ranks |-> NoResult]
    /\ omp_threads = [r \in Ranks |-> 0]
    /\ wire = [r \in Ranks |-> <<>>]
    /\ argv = NoArgs
    /\ flags = [r \in Ranks |-> DefaultFlags]
    /\ suite = NoSuite
    /\ aborted = FALSE

NoProgram ==
    /\ A = Matrix(0, 0) /\ B = Matrix(0, 0)
    /\ config = Config(NAIVE, SEQUENTIAL, DefaultOpt)
    /\ Standalone

\* the matrices of at most two elements with entries -1..2, the empty ones
\* among them, and the 2 x 2 matrices with entries 0 and 1
CompareShapes == {rc \in (0..MaxDim) \X (0..MaxDim) : rc[1] * rc[2] <= 2}
CompareOperands ==
    UNION {{[rows |-> rc[1], cols |-> rc[2], data |-> d] :
               d \in [1..(rc[1] * rc[2]) -> -1..2]} : rc \in CompareShapes}
    \cup {[rows |-> 2, cols |-> 2, data |-> d] : d \in [1..4 -> 0..1]}

\* the default tolerances 1e-8 and 1e-5, and 1.0 and 0.5, which entries that
\* are integers can sit exactly on
AbsTolerances == {abs_tolerance, TolDen}
RelTolerances == {rel_tolerance, TolDen \div 2}

NoCmp == [num_elements |-> -1]

InitCompare ==
    /\ NoProgram
    /\ team = NoTeam
    /\ \E X \in CompareOperands, Y \in CompareOperands,
          abs_tol \in AbsTolerances, rel_tol \in RelTolerances :
          mem = [at |-> "compare", this |-> X, other |-> Y,
                 abs_tol |-> abs_tol, rel_tol |-> rel_tol,
                 result |-> NoCmp, reversed |-> NoCmp]

\* `ComparisonResult result = X.compare(Y, abs_tol, rel_tol)`; X and Y are
\* const in the call
Compare ==
    /\ mem.at = "compare"
    /\ \E indeterminate \in Indeterminate :
          mem' = [mem EXCEPT !.at = "compared",
                             !.result = compare(mem.this, mem.other, mem.abs_tol,
                                                mem.rel_tol, indeterminate)]
    /\ UNCHANGED program /\ UNCHANGED team

\* `ComparisonResult reversed = Y.compare(X, abs_tol, rel_tol)`
CompareReversed ==
    /\ mem.at = "compared"
    /\ \E indeterminate \in Indeterminate :
          mem' = [mem EXCEPT !.at = "compared_both",
                             !.reversed = compare(mem.other, mem.this, mem.abs_tol,
                                                  mem.rel_tol, indeterminate)]
    /\ UNCHANGED program /\ UNCHANGED team

CompareNext == Compare \/ CompareReversed

SpecCompare == InitCompare /\ [][CompareNext]_vars

\* ------------------------------------------------- Matrix objects by identity
\* A caller holds the Matrix objects M and N and a third it may construct, R.
\* An object is its members rows_, cols_ and data_; data_, a std::vector, owns
\* one buffer of mem.buffers, named here by its position (0: the object does
\* not exist yet).  A vector constructed, or copied into, gets a buffer of its
\* own; a vector moved from is left empty and the buffer changes owner.
Names == {"M", "N", "R"}
NoObject == [rows_ |-> 0, cols_ |-> 0, data_ |-> 0]

\* the matrix an object holds
Value(h, name) ==
    [rows |-> h.objects[name].rows_, cols |-> h.objects[name].cols_,
     data |-> h.buffers[h.objects[name].data_]]

\* Matrix::Matrix(const Matrix& other), constructing d from s
copy_constructor(h, d, s) ==
    [h EXCEPT !.objects[d] = [rows_ |-> h.objects[s].rows_, cols_ |-> h.objects[s].cols_,
                              data_ |-> Len(h.buffers) + 1],
              !.buffers = Append(@, h.buffers[h.objects[s].data_])]

\* Matrix::Matrix(Matrix&& other), constructing d from s
move_constructor(h, d, s) ==
    [h EXCEPT !.objects[d] = h.objects[s],
              !.objects[s] = [rows_ |-> 0, cols_ |-> 0, data_ |-> Len(h.buffers) + 1],
              !.buffers = Append(@, <<>>)]

\* a faulty variant: the destination shares the buffer of the source
copy_assignment_shallow(h, d, s) ==
    IF d # s THEN [h EXCEPT !.objects[d] = h.objects[s]] ELSE h

\* Matrix::operator=(const Matrix& other), d = s
copy_assignment(h, d, s) ==
    IF d # s
    THEN [h EXCEPT !.objects[d].rows_ = h.objects[s].rows_,
                   !.objects[d].cols_ = h.objects[s].cols_,
                   !.buffers[h.objects[d].data_] = h.buffers[h.objects[s].data_]]
    ELSE h

\* Matrix::operator=(Matrix&& other), d = std::move(s)
move_assignment(h, d, s) ==
    IF d # s
    THEN [h EXCEPT !.objects[d] = h.objects[s],
                   !.objects[s] = [rows_ |-> 0, cols_ |-> 0, data_ |-> Len(h.buffers) + 1],
                   !.buffers = Append(@, <<>>)]
    ELSE h

\* `Matrix R = M.submatrix(...)`: the local `result` is constructed with a
\* buffer of its own, filled, and returned
submatrix_object(h, d, s, row_start, col_start, row_end, col_end) ==
    LET sub == submatrix(Value(h, s), row_start, col_start, row_end, col_end)
    IN [h EXCEPT !.objects[d] = [rows_ |-> sub.rows, cols_ |-> sub.cols,
                                 data_ |-> Len(h.buffers) + 1],
                 !.buffers = Append(@, sub.data)]

\* `d.set_submatrix(row_start, col_start, sub)`: assignments through operator()
set_submatrix_object(h, d, row_start, col_start, sub) ==
    [h EXCEPT !.buffers[h.objects[d].data_] =
        set_submatrix(Value(h, d), row_start, col_start, Value(h, sub)).data]

\* `o(row, col) = v` at flat position x = index(row, col) + 1
write_element(h, o, x, v) == [h EXCEPT !.buffers[h.objects[o].data_][x] = v]

\* the regions [row_start, row_end) x [col_start, col_end) inside matrix X
Regions(X) ==
    {reg \in (0..X.rows) \X (0..X.cols) \X (0..X.rows) \X (0..X.cols) :
        reg[1] <= reg[3] /\ reg[2] <= reg[4]}

\* M and N are constructed and filled; nothing has been called on them yet.
\* `before` keeps what they held, `call` what has been called since.
InitObjects ==
    /\ NoProgram
    /\ team = NoTeam
    /\ \E rc \in (0..MaxDim) \X (0..MaxDim), n \in {0, 2} :
          LET X == Gen(rc[1], rc[2], 0)
              Y == Gen(1, n, 1)
          IN mem = [at |-> "objects",
                    objects |-> [o \in Names |->
                        CASE o = "M" -> [rows_ |-> X.rows, cols_ |-> X.cols, data_ |-> 1]
                          [] o = "N" -> [rows_ |-> Y.rows, cols_ |-> Y.cols, data_ |-> 2]
                          [] OTHER -> NoObject],
                    buffers |-> <<X.data, Y.data>>,
                    before |-> [M |-> X, N |-> Y],
                    call |-> [name |-> "none"],
                    written |-> "none"]

\* the heap of the objects
Heap == [objects |-> mem.objects, buffers |-> mem.buffers]
Called(h, call) ==
    [mem EXCEPT !.at = "called", !.objects = h.objects, !.buffers = h.buffers,
                !.call = call]

\* `Matrix R = M.submatrix(row_start, col_start, row_end, col_end);`
Submatrix ==
    /\ mem.at = "objects"
    /\ \E reg \in Regions(Value(Heap, "M")) :
          mem' = Called(submatrix_object(Heap, "R", "M", reg[1], reg[2], reg[3], reg[4]),
                        [name |-> "submatrix", region |-> reg])
    /\ UNCHANGED program /\ UNCHANGED team

\* `Matrix R(M);`
CopyConstruct ==
    /\ mem.at = "objects"
    /\ mem' = Called(copy_constructor(Heap, "R", "M"),
                     [name |-> "copy", to |-> "R", from |-> "M"])
    /\ UNCHANGED program /\ UNCHANGED team

\* `Matrix R(std::move(M));`
MoveConstruct ==
    /\ mem.at = "objects"
    /\ mem' = Called(move_constructor(Heap, "R", "M"),
                     [name |-> "move", to |-> "R", from |-> "M"])
    /\ UNCHANGED program /\ UNCHANGED team

\* `d = s;` for d and s among M and N, d = s included
CopyAssign ==
    /\ mem.at = "objects"
    /\ \E d \in {"M", "N"}, s \in {"M", "N"} :
          mem' = Called(copy_assignment(Heap, d, s), [name |-> "copy", to |-> d, from |-> s])
    /\ UNCHANGED program /\ UNCHANGED team

\* `d = std::move(s);` for d and s among M and N, d = s included
MoveAssign ==
    /\ mem.at = "objects"
    /\ \E d \in {"M", "N"}, s \in {"M", "N"} :
          mem' = Called(move_assignment(Heap, d, s), [name |-> "move", to |-> d, from |-> s])
    /\ UNCHANGED program /\ UNCHANGED team

\* `o(row, col) = 9;`, a value no generated matrix holds, on an element of an
\* object, once after the call
Write ==
    /\ mem.at = "called"
    /\ \E o \in Names :
          /\ mem.objects[o].data_ # 0
          /\ \E x \in 1..Len(mem.buffers[mem.objects[o].data_]) :
                LET h == write_element(Heap, o, x, 9)
                IN mem' = [mem EXCEPT !.at = "written", !.buffers = h.buffers,
                                      !.written = o]
    /\ UNCHANGED program /\ UNCHANGED team

\* `M.set_submatrix(row_start, col_start, R);` with the corner R was taken at;
\* `before.M` becomes what M held when the call began
SetSubmatrix ==
    /\ mem.at \in {"called", "written"}
    /\ mem.call.name = "submatrix"
    /\ LET h == set_submatrix_object(Heap, "M", mem.call.region[1], mem.call.region[2], "R")
       IN mem' = [mem EXCEPT !.at = "set", !.buffers = h.buffers,
                             !.before = [@ EXCEPT !.M = Value(Heap, "M")]]
    /\ UNCHANGED program /\ UNCHANGED team

ObjectsNext ==
    \/ Submatrix \/ CopyConstruct \/ MoveConstruct \/ CopyAssign \/ MoveAssign
    \/ Write \/ SetSubmatrix

SpecObjects == InitObjects /\ [][ObjectsNext]_vars

\* --------------------------------------------- Matrix objects, call after call
\* The caller of SpecObjects makes up to MaxOps calls, in any order, on the
\* objects M and N: it constructs them by size, by copy or by move, assigns,
\* fills, writes elements and blocks, resizes, adds and subtracts.  rows_ and
\* cols_ are ints; an element count is the int product rows * cols, converted
\* to the vector's size_type.

\* the two 16-bit halves of an int in two's complement
lo16(a) == a % 65536
hi16(a) == (a \div 65536) % 65536

\* the low and the high 16 bits of the product of two 16-bit numbers
mul16_low(a, b) == (a * (b % 256) + ((a * (b \div 256)) % 256) * 256) % 65536
mul16_high(a, b) ==
    LET upper == a * (b \div 256)
        low == (upper % 256) * 256 + a * (b % 256)
    IN upper \div 256 + low \div 65536

\* a * b on ints where the product is kept in 32 bits
int_mul(a, b) ==
    LET lo == mul16_low(lo16(a), lo16(b))
        hi == (mul16_high(lo16(a), lo16(b)) + mul16_low(hi16(a), lo16(b))
                  + mul16_low(lo16(a), hi16(b))) % 65536
    IN IF hi >= 32768 THEN (hi - 65536) * 65536 + lo ELSE hi * 65536 + lo

\* the product of a and b is an int
in_int(a, b) == b = 0 \/ Abs(a) <= 2147483647 \div Abs(b)

\* what a vector is asked to hold for `rows * cols`: the product where it is
\* an int; where it overflows the behaviour is undefined, and the build either
\* keeps the low 32 bits or asks for more than can be allocated ("throws")
element_counts(rows, cols) ==
    IF in_int(rows, cols) THEN {[n |-> rows * cols, err |-> ""]}
    ELSE {[n |-> int_mul(rows, cols), err |-> ""], [n |-> 0, err |-> "bad_alloc"]}

\* a vector of a negative int count: the conversion to size_type gives more
\* than max_size() and the vector throws
vector_error(count) ==
    IF count.err # "" THEN count.err
    ELSE IF count.n < 0 THEN "length_error" ELSE ""

\* Matrix::Matrix(int rows, int cols) and Matrix::Matrix(int size), constructing
\* d; when the vector's constructor throws there is no object
sized_constructor(h, d, rows, cols, count) ==
    IF vector_error(count) # "" THEN h
    ELSE [h EXCEPT !.objects[d] = [rows_ |-> rows, cols_ |-> cols,
                                   data_ |-> Len(h.buffers) + 1],
                   !.buffers = Append(@, Vec([x \in 1..count.n |-> 0], count.n))]

\* a faulty variant: the members are assigned and the buffer keeps its length
resize_keeps_buffer(h, o, rows, cols, count) ==
    [h EXCEPT !.objects[o].rows_ = rows, !.objects[o].cols_ = cols]

\* Matrix::resize: rows_ and cols_ are assigned, then the vector is resized
\* (it keeps its first elements and appends zeros), unless it throws
resize_object(h, o, rows, cols, count) ==
    LET old == h.buffers[h.objects[o].data_]
        shaped == [h EXCEPT !.objects[o].rows_ = rows, !.objects[o].cols_ = cols]
    IN IF vector_error(count) # "" THEN shaped
       ELSE [shaped EXCEPT !.buffers[h.objects[o].data_] =
                Vec([x \in 1..count.n |-> IF x <= Len(old) THEN old[x] ELSE 0], count.n)]

\* Matrix::fill and Matrix::zero
fill_object(h, o, value) ==
    [h EXCEPT !.buffers[h.objects[o].data_] = Vec([x \in 1..Len(@) |-> value], Len(@))]
zero_object(h, o) == fill_object(h, o, 0)

\* Matrix::identity on a square matrix: zero(), then the diagonal
identity_object(h, o) ==
    LET M == Value(h, o)
    IN [h EXCEPT !.buffers[h.objects[o].data_] =
           Vec([x \in 1..Len(@) |->
                   IF \E i \in 0..(M.rows - 1) : index(M, i, i) + 1 = x THEN 1 ELSE 0],
               Len(@))]

\* Matrix::operator+= and -= on equal shapes, sign 1 or -1
plus_assign(h, d, s, sign) ==
    [h EXCEPT !.buffers[h.objects[d].data_] =
        Vec([x \in 1..Len(@) |-> @[x] + sign * h.buffers[h.objects[s].data_][x]], Len(@))]

\* the number of calls the caller makes
MaxOps == 4

\* the shapes the caller asks for: every pair of -1..MaxDim, and one whose
\* product is 2^32
LifetimeShapes == ((-1..MaxDim) \X (-1..MaxDim)) \cup {<<65536, 65536>>}
Operands == {"M", "N"}
Exists(o) == mem.objects[o].data_ # 0

\* nothing is constructed yet
InitLifetime ==
    /\ NoProgram
    /\ team = NoTeam
    /\ mem = [at |-> "lifetime", objects |-> [o \in Names |-> NoObject],
              buffers |-> <<>>, ops |-> 0,
              call |-> [name |-> "none", on |-> "none", err |-> ""],
              uncountable |-> FALSE]

\* the state after a call: `uncountable` records that some call so far was
\* given a shape whose product is negative or is not an int
After(h, name, o, err, odd) ==
    [mem EXCEPT !.objects = h.objects, !.buffers = h.buffers, !.ops = @ + 1,
                !.call = [name |-> name, on |-> o, err |-> err],
                !.uncountable = @ \/ odd]

Uncountable(rc) == ~in_int(rc[1], rc[2]) \/ rc[1] * rc[2] < 0

\* `Matrix o(rows, cols);` or, for rows = cols, `Matrix o(size);`
SizedConstruct ==
    /\ mem.at = "lifetime" /\ mem.ops < MaxOps
    /\ \E o \in Operands, rc \in LifetimeShapes :
          /\ ~Exists(o)
          /\ \E count \in element_counts(rc[1], rc[2]) :
                mem' = After(sized_constructor(Heap, o, rc[1], rc[2], count),
                             "construct", o, vector_error(count), Uncountable(rc))
    /\ UNCHANGED program /\ UNCHANGED team

\* `Matrix d(s);` and `Matrix d(std::move(s));`
ConstructFrom ==
    /\ mem.at = "lifetime" /\ mem.ops < MaxOps
    /\ \E d \in Operands, s \in Operands :
          /\ ~Exists(d) /\ Exists(s)
          /\ \/ mem' = After(copy_constructor(Heap, d, s), "copy", d, "", FALSE)
             \/ mem' = After(move_constructor(Heap, d, s), "move", d, "", FALSE)
    /\ UNCHANGED program /\ UNCHANGED team

\* `d = s;` and `d = std::move(s);`, d = s included
Assign ==
    /\ mem.at = "lifetime" /\ mem.ops < MaxOps
    /\ \E d \in Operands, s \in Operands :
          /\ Exists(d) /\ Exists(s)
          /\ \/ mem' = After(copy_assignment(Heap, d, s), "copy_assign", d, "", FALSE)
             \/ mem' = After(move_assignment(Heap, d, s), "move_assign", d, "", FALSE)
    /\ UNCHANGED program /\ UNCHANGED team

\* `o.fill(1);`, `o.zero();` and `o.identity();`, which throws on a matrix
\* that is not square and is called here where its writes stay in the buffer
Fill ==
    /\ mem.at = "lifetime" /\ mem.ops < MaxOps
    /\ \E o \in Operands :
          /\ Exists(o)
          /\ \/ mem' = After(fill_object(Heap, o, 1), "fill", o, "", FALSE)
             \/ mem' = After(zero_object(Heap, o), "zero", o, "", FALSE)
             \/ /\ mem.objects[o].rows_ # mem.objects[o].cols_
                /\ mem' = After(Heap, "identity", o, "runtime_error", FALSE)
             \/ /\ mem.objects[o].rows_ = mem.objects[o].cols_
                /\ mem.objects[o].rows_ <= MaxDim + 1
                /\ \A i \in 0..(mem.objects[o].rows_ - 1) :
                      index(Value(Heap, o), i, i) < Len(mem.buffers[mem.objects[o].data_])
                /\ mem' = After(identity_object(Heap, o), "identity", o, "", FALSE)
    /\ UNCHANGED program /\ UNCHANGED team

\* `o(row, col) = 9;` for 0 <= row < rows_ and 0 <= col < cols_, where the
\* element is in the buffer
WriteElement ==
    /\ mem.at = "lifetime" /\ mem.ops < MaxOps
    /\ \E o \in Operands, row \in 0..MaxDim, col \in 0..MaxDim :
          /\ Exists(o)
          /\ row < mem.objects[o].rows_ /\ col < mem.objects[o].cols_
          /\ mem.objects[o].cols_ <= MaxDim + 1
          /\ index(Value(Heap, o), row, col) < Len(mem.buffers[mem.objects[o].data_])
          /\ mem' = After(write_element(Heap, o, index(Value(Heap, o), row, col) + 1, 9),
                          "write", o, "", FALSE)
    /\ UNCHANGED program /\ UNCHANGED team

\* `d.set_submatrix(row_start, col_start, s);` where the block lies inside d
\* and both matrices hold the elements their shapes name
WriteBlock ==
    /\ mem.at = "lifetime" /\ mem.ops < MaxOps
    /\ \E d \in Operands, s \in Operands, row_start \in 0..MaxDim, col_start \in 0..MaxDim :
          LET D == Value(Heap, d)
              S == Value(Heap, s)
          IN /\ Exists(d) /\ Exists(s)
             /\ S.rows \in 1..(MaxDim + 1) /\ S.cols \in 1..(MaxDim + 1)
             /\ D.rows \in 1..(MaxDim + 1) /\ D.cols \in 1..(MaxDim + 1)
             /\ Len(S.data) >= S.rows * S.cols /\ Len(D.data) >= D.rows * D.cols
             /\ row_start + S.rows <= D.rows /\ col_start + S.cols <= D.cols
             /\ mem' = After(set_submatrix_object(Heap, d, row_start, col_start, s),
                             "set_submatrix", d, "", FALSE)
    /\ UNCHANGED program /\ UNCHANGED team

\* `o.resize(rows, cols);`
Resize ==
    /\ mem.at = "lifetime" /\ mem.ops < MaxOps
    /\ \E o \in Operands, rc \in LifetimeShapes :
          /\ Exists(o)
          /\ \E count \in element_counts(rc[1], rc[2]) :
                mem' = After(resize_object(Heap, o, rc[1], rc[2], count), "resize", o,
                             vector_error(count), Uncountable(rc))
    /\ UNCHANGED program /\ UNCHANGED team

\* `d += s;` and `d -= s;`, which throw on different shapes and are called
\* here where s holds at least as many elements as d
PlusAssign ==
    /\ mem.at = "lifetime" /\ mem.ops < MaxOps
    /\ \E d \in Operands, s \in Operands, sign \in {1, -1} :
          LET name == IF sign = 1 THEN "+=" ELSE "-="
          IN /\ Exists(d) /\ Exists(s)
             /\ \/ /\ \/ mem.objects[d].rows_ # mem.objects[s].rows_
                      \/ mem.objects[d].cols_ # mem.objects[s].cols_
                   /\ mem' = After(Heap, name, d, "runtime_error", FALSE)
                \/ /\ mem.objects[d].rows_ = mem.objects[s].rows_
                   /\ mem.objects[d].cols_ = mem.objects[s].cols_
                   /\ Len(mem.buffers[mem.objects[d].data_])
                         <= Len(mem.buffers[mem.objects[s].data_])
                   /\ mem' = After(plus_assign(Heap, d, s, sign), name, d, "", FALSE)
    /\ UNCHANGED program /\ UNCHANGED team

LifetimeNext ==
    \/ SizedConstruct \/ ConstructFrom \/ Assign \/ Fill \/ WriteElement
    \/ WriteBlock \/ Resize \/ PlusAssign

SpecLifetime == InitLifetime /\ [][LifetimeNext]_vars

\* ------------------------------------------- naive::openmp, thread by thread
\* The parallel region of naive::openmp with its team of num_threads threads.
\* `collapse(2) schedule(dynamic)` makes one iteration of each (ii, jj) block
\* pair (blocking on) or of each (i, j) cell (blocking off) and hands the
\* iterations, one at a time, to whichever thread asks next.  team.C is the
\* shared result; team.writers and team.runs record, per cell, the threads
\* that have written it and, per iteration, who ran which kk block, in order.
MaxThreads == 2

\* a faulty variant: jj advances by 1 where it should advance by block_size
omp_iterations_unit_stride(m, n, opt) ==
    IF opt.cache_friendly /\ opt.use_blocking
    THEN {it \in (0..(m - 1)) \X (0..(n - 1)) : it[1] % opt.block_size = 0}
    ELSE (0..(m - 1)) \X (0..(n - 1))

\* the iteration space of the collapsed loops
omp_iterations(m, n, opt) ==
    IF opt.cache_friendly /\ opt.use_blocking
    THEN {it \in (0..(m - 1)) \X (0..(n - 1)) :
             it[1] % opt.block_size = 0 /\ it[2] % opt.block_size = 0}
    ELSE (0..(m - 1)) \X (0..(n - 1))

\* the flat positions of C that the body of iteration `it` assigns
omp_cells(it, m, n, opt) ==
    IF opt.cache_friendly /\ opt.use_blocking
    THEN {x \in 1..(m * n) :
             /\ RowOf(x, n) >= it[1] /\ RowOf(x, n) < Min(it[1] + opt.block_size, m)
             /\ ColOf(x, n) >= it[2] /\ ColOf(x, n) < Min(it[2] + opt.block_size, n)}
    ELSE {x \in 1..(m * n) : RowOf(x, n) = it[1] /\ ColOf(x, n) = it[2]}

\* one pass of the body of the kk loop (blocking on), or the whole body of the
\* (i, j) iteration (blocking off), on the shared C
omp_body(C, X, Y, it, kk, opt) ==
    LET cells == omp_cells(it, X.rows, Y.cols, opt)
    IN [C EXCEPT !.data = Vec([x \in 1..Len(C.data) |->
            IF x \notin cells THEN C.data[x]
            ELSE IF opt.cache_friendly /\ opt.use_blocking
            THEN Accumulate(C.data[x], X, Y, RowOf(x, C.cols), ColOf(x, C.cols),
                            kk, Min(kk + opt.block_size, X.cols))
            ELSE Accumulate(0, X, Y, RowOf(x, C.cols), ColOf(x, C.cols), 0, X.cols)],
            Len(C.data))]

\* the iteration has passes of its body left after `kk`
omp_more(kk, k, opt) == opt.cache_friendly /\ opt.use_blocking /\ kk + opt.block_size < k

Threads == 1..team.num_threads
Idle == [busy |-> FALSE]
\* m, k, n of the operands: up to 2, and 3 x 1 times 1 x 1, where a block
\* size of 2 leaves a partial block
OmpShapes == ((0..2) \X (0..2) \X (0..2)) \cup {<<3, 1, 1>>}

\* naive::openmp has checked the shapes, set the pool size, zeroed C and
\* reached the parallel region
InitOmp ==
    /\ Standalone
    /\ mem = NoMem
    /\ \E s \in OmpShapes, opt \in {DefaultOpt, Opt(TRUE, 1), Opt(TRUE, 2)},
          num_threads \in 1..MaxThreads :
          /\ A = Gen(s[1], s[2], 0)
          /\ B = Gen(s[2], s[3], 1)
          /\ config = [Config(NAIVE, OPENMP, opt) EXCEPT !.num_threads = num_threads]
          /\ team = [at |-> "parallel", num_threads |-> num_threads,
                     C |-> zero(Matrix(s[1], s[3])),
                     pending |-> omp_iterations(s[1], s[3], opt),
                     holds |-> [t \in 1..num_threads |-> Idle],
                     writers |-> [x \in 1..(s[1] * s[3]) |-> {}],
                     runs |-> [it \in omp_iterations(s[1], s[3], opt) |-> <<>>]]

\* thread t asks for work and is handed an iteration not handed out before
Grab(t) ==
    /\ team.at = "parallel"
    /\ ~team.holds[t].busy
    /\ \E it \in team.pending :
          team' = [team EXCEPT !.pending = @ \ {it},
                               !.holds[t] = [busy |-> TRUE, it |-> it, kk |-> 0]]
    /\ UNCHANGED program /\ UNCHANGED mem

\* thread t runs the body of its iteration once: the kk block at hand, or the
\* whole (i, j) cell; with blocking on and k = 0 the kk loop has no pass
Run(t) ==
    /\ team.at = "parallel"
    /\ team.holds[t].busy
    /\ LET it == team.holds[t].it
           kk == team.holds[t].kk
           opt == config.optimization
           blocked == opt.cache_friendly /\ opt.use_blocking
           pass == ~blocked \/ kk < A.cols
           cells == omp_cells(it, A.rows, B.cols, opt)
       IN team' = [team EXCEPT
             !.C = IF pass THEN omp_body(@, A, B, it, kk, opt) ELSE @,
             !.writers = IF pass THEN [x \in DOMAIN @ |->
                                         IF x \in cells THEN @[x] \cup {t} ELSE @[x]]
                         ELSE @,
             !.runs[it] = IF pass THEN Append(@, [thread |-> t, kk |-> kk]) ELSE @,
             !.holds[t] = IF omp_more(kk, A.cols, opt)
                          THEN [@ EXCEPT !.kk = kk + opt.block_size]
                          ELSE Idle]
    /\ UNCHANGED program /\ UNCHANGED mem

\* the barrier at the end of the loop, and `return C`
Join ==
    /\ team.at = "parallel"
    /\ team.pending = {}
    /\ \A t \in Threads : ~team.holds[t].busy
    /\ team' = [team EXCEPT !.at = "joined"]
    /\ UNCHANGED program /\ UNCHANGED mem

GrabStep == \E t \in Threads : Grab(t)
RunStep == \E t \in Threads : Run(t)

OmpNext == GrabStep \/ RunStep \/ Join

SpecOmp == InitOmp /\ [][OmpNext]_vars

\* ------------------------------------- the blocked loop nest, block by block
\* The three block loops of naive::sequential, and of naive::mpi on the rows
\* of one rank, one step per loop event.  team.ii, jj, kk are the loop
\* variables, team.X the left operand (A, or the rank's A_local), team.C the
\* result (C, or C_local).  team.terms records, per cell, the indices k whose
\* product has been added to it, in order; team.visits the blocks run so far.
LoopShapes == (0..MaxDim) \X (0..MaxDim) \X (0..2)

\* who runs the loops: naive::sequential, or naive::mpi as rank 0 or 1 of 2
LoopOwners == {[of |-> "sequential", rank |-> 0, sz |-> 1],
               [of |-> "mpi", rank |-> 0, sz |-> 2], [of |-> "mpi", rank |-> 1, sz |-> 2]}

InitLoops ==
    /\ Standalone
    /\ mem = NoMem
    /\ \E s \in LoopShapes, bs \in 1..MaxBlock, owner \in LoopOwners :
          LET lrows == local_rows(owner.rank, s[1], owner.sz)
          IN /\ A = Gen(s[1], s[2], 0)
             /\ B = Gen(s[2], s[3], 1)
             /\ config = Config(NAIVE, IF owner.of = "mpi" THEN MPI ELSE SEQUENTIAL,
                                Opt(TRUE, bs))
             /\ team = [at |-> "loops", owner |-> owner,
                        X |-> IF owner.of = "mpi"
                              THEN local_slice(A, row_offset(owner.rank, s[1], owner.sz),
                                               lrows, s[2])
                              ELSE A,
                        C |-> zero(Matrix(lrows, s[3])),
                        ii |-> 0, jj |-> 0, kk |-> 0,
                        terms |-> [x \in 1..(lrows * s[3]) |-> <<>>],
                        visits |-> <<>>]

\* the flat positions of the cells of block (ii, jj)
block_cells(ii, jj, bs, m, n) ==
    {x \in 1..(m * n) : /\ RowOf(x, n) >= ii /\ RowOf(x, n) < Min(ii + bs, m)
                        /\ ColOf(x, n) >= jj /\ ColOf(x, n) < Min(jj + bs, n)}

\* the indices kk, kk + 1, ..., k_max - 1, in the order of the kk_inner loop
RECURSIVE inner_indices(_, _)
inner_indices(kk, k_max) ==
    IF kk >= k_max THEN <<>> ELSE <<kk>> \o inner_indices(kk + 1, k_max)

\* the body of the kk loop at (ii, jj, kk), then `kk += block_size`
Block ==
    /\ team.at = "loops"
    /\ team.ii < team.X.rows /\ team.jj < B.cols /\ team.kk < team.X.cols
    /\ LET bs == config.optimization.block_size
           m == team.X.rows
           n == B.cols
           k == team.X.cols
           cells == block_cells(team.ii, team.jj, bs, m, n)
       IN team' = [team EXCEPT
             !.C = IF team.owner.of = "mpi"
                   THEN mpi_block(@, team.X, B, m, n, k, bs, team.ii, team.jj, team.kk)
                   ELSE seq_block(@, team.X, B, m, n, k, bs, team.ii, team.jj, team.kk),
             !.terms = [x \in DOMAIN @ |->
                          IF x \in cells
                          THEN @[x] \o inner_indices(team.kk, Min(team.kk + bs, k))
                          ELSE @[x]],
             !.visits = Append(@, <<team.ii, team.jj, team.kk>>),
             !.kk = @ + bs]
    /\ UNCHANGED program /\ UNCHANGED mem

\* the kk loop ends: `jj += block_size`, and kk starts again at 0
NextJJ ==
    /\ team.at = "loops"
    /\ team.ii < team.X.rows /\ team.jj < B.cols /\ team.kk >= team.X.cols
    /\ team' = [team EXCEPT !.jj = @ + config.optimization.block_size, !.kk = 0]
    /\ UNCHANGED program /\ UNCHANGED mem

\* the jj loop ends: `ii += block_size`, and jj starts again at 0
NextII ==
    /\ team.at = "loops"
    /\ team.ii < team.X.rows /\ team.jj >= B.cols
    /\ team' = [team EXCEPT !.ii = @ + config.optimization.block_size, !.jj = 0, !.kk = 0]
    /\ UNCHANGED program /\ UNCHANGED mem

\* the ii loop ends
LoopsEnd ==
    /\ team.at = "loops"
    /\ team.ii >= team.X.rows
    /\ team' = [team EXCEPT !.at = "returned"]
    /\ UNCHANGED program /\ UNCHANGED mem

LoopsNext == Block \/ NextJJ \/ NextII \/ LoopsEnd

\* the thread that runs the loops keeps running
SpecLoops == InitLoops /\ [][LoopsNext]_vars /\ WF_vars(LoopsNext)

\* --------------------------------- the sections of strassen_recursive_omp
\* One call of strassen_recursive_omp with n even and above the threshold, from
\* the `parallel sections` on.  The team has num_threads threads; a section is
\* run by the thread that is handed it.  The seven products are kept by name
\* until they are read: team.M[i] = j says that the variable Mi holds the
\* product section j computes (0: Mi is as default-constructed, 0 x 0), and
\* team.writers[i] is the set of sections that have assigned Mi.
Sections == 1..7

\* the quadrants of the operands
Quadrants(X, Y) ==
    LET n == X.rows
        half == n \div 2
    IN [A11 |-> submatrix(X, 0, 0, half, half), A12 |-> submatrix(X, 0, half, half, n),
        A21 |-> submatrix(X, half, 0, n, half), A22 |-> submatrix(X, half, half, n, n),
        B11 |-> submatrix(Y, 0, 0, half, half), B12 |-> submatrix(Y, 0, half, half, n),
        B21 |-> submatrix(Y, half, 0, n, half), B22 |-> submatrix(Y, half, half, n, n)]

\* the variables section i reads
section_reads(i) ==
    CASE i = 1 -> {"A11", "A22", "B11", "B22"}
      [] i = 2 -> {"A21", "A22", "B11"}
      [] i = 3 -> {"A11", "B12", "B22"}
      [] i = 4 -> {"A22", "B21", "B11"}
      [] i = 5 -> {"A11", "A12", "B22"}
      [] i = 6 -> {"A21", "A11", "B11", "B12"}
      [] i = 7 -> {"A12", "A22", "B21", "B22"}

\* a faulty variant: the second section assigns M1
section_target_m1_twice(i) == IF i = 2 THEN 1 ELSE i

\* the variable Mi that section i assigns
section_target(i) == i

\* the product section i computes
section_product(i, Q, opt, num_threads) ==
    LET nt == num_threads \div 7 + 1
    IN CASE i = 1 -> strassen_recursive_omp(plus(Q.A11, Q.A22).val, plus(Q.B11, Q.B22).val, opt, nt)
         [] i = 2 -> strassen_recursive_omp(plus(Q.A21, Q.A22).val, Q.B11, opt, nt)
         [] i = 3 -> strassen_recursive_omp(Q.A11, minus(Q.B12, Q.B22).val, opt, nt)
         [] i = 4 -> strassen_recursive_omp(Q.A22, minus(Q.B21, Q.B11).val, opt, nt)
         [] i = 5 -> strassen_recursive_omp(plus(Q.A11, Q.A12).val, Q.B22, opt, nt)
         [] i = 6 -> strassen_recursive_omp(minus(Q.A21, Q.A11).val, plus(Q.B11, Q.B12).val, opt, nt)
         [] i = 7 -> strassen_recursive_omp(minus(Q.A12, Q.A22).val, plus(Q.B21, Q.B22).val, opt, nt)

\* what the variable holds that was last assigned by section j
held(j, Q, opt, num_threads) ==
    IF j = 0 THEN Matrix(0, 0) ELSE section_product(j, Q, opt, num_threads)

\* the call has split its operands and declared M1..M7; the operands are the
\* squares of even size just above the threshold, and those of odd size padded
InitSections ==
    /\ Standalone
    /\ mem = NoMem
    /\ \E n \in (STRASSEN_OMP_THRESHOLD + 1)..(STRASSEN_OMP_THRESHOLD + MaxAbove),
          num_threads \in 1..MaxThreads :
          /\ A = (IF n % 2 # 0 THEN pad(Gen(n, n, 0), n) ELSE Gen(n, n, 0))
          /\ B = (IF n % 2 # 0 THEN pad(Gen(n, n, 1), n) ELSE Gen(n, n, 1))
          /\ config = [Config(STRASSEN, OPENMP, DefaultOpt) EXCEPT !.num_threads = num_threads]
          /\ team = [at |-> "sections", num_threads |-> num_threads,
                     pending |-> Sections,
                     holds |-> [t \in 1..num_threads |-> Idle],
                     M |-> [i \in Sections |-> 0],
                     writers |-> [i \in Sections |-> {}],
                     C |-> Matrix(0, 0)]

\* thread t is handed a section no thread has been handed
SectionStart(t) ==
    /\ team.at = "sections"
    /\ ~team.holds[t].busy
    /\ \E i \in team.pending :
          team' = [team EXCEPT !.pending = @ \ {i},
                               !.holds[t] = [busy |-> TRUE, section |-> i]]
    /\ UNCHANGED program /\ UNCHANGED mem

\* thread t ends its section: the product is assigned to the section's variable
SectionEnd(t) ==
    /\ team.at = "sections"
    /\ team.holds[t].busy
    /\ LET i == team.holds[t].section
       IN team' = [team EXCEPT !.M[section_target(i)] = i,
                               !.writers[section_target(i)] = @ \cup {i},
                               !.holds[t] = Idle]
    /\ UNCHANGED program /\ UNCHANGED mem

\* the barrier at the end of the sections, the four quadrants from M1..M7,
\* the four set_submatrix calls and `return C`
SectionsJoin ==
    /\ team.at = "sections"
    /\ team.pending = {}
    /\ \A t \in Threads : ~team.holds[t].busy
    /\ LET n == A.rows
           Q == Quadrants(A, B)
           M == [i \in Sections |->
                    held(team.M[i], Q, config.optimization, team.num_threads)]
       IN team' = [team EXCEPT
             !.at = "returned",
             !.C = combine(n, n \div 2, quadrant_C11(M[1], M[4], M[5], M[7]),
                           quadrant_C12(M[3], M[5]), quadrant_C21(M[2], M[4]),
                           quadrant_C22(M[1], M[2], M[3], M[6]))]
    /\ UNCHANGED program /\ UNCHANGED mem

SectionStartStep == \E t \in Threads : SectionStart(t)
SectionEndStep == \E t \in Threads : SectionEnd(t)

SectionsNext == SectionStartStep \/ SectionEndStep \/ SectionsJoin

SpecSections == InitSections /\ [][SectionsNext]_vars

\* ------------------------- strassen_recursive_omp, call by call
\* One call of strassen_recursive_omp and the calls it makes, one frame per
\* call.  team.stack holds the frames of the calls that have not returned, the
\* innermost last; a frame keeps its operands, its worker budget, where the
\* call stands and what its own calls have returned so far.  team.last is the
\* call that returned most recently.  The sections of one region do not
\* depend on each other (SpecSections); here they run in the order written,
\* as a team of one thread runs them.

\* a faulty variant: the parity test comes before the threshold test
recursion_step_pads_first(n) ==
    IF n % 2 # 0 THEN "pad"
    ELSE IF n <= STRASSEN_OMP_THRESHOLD THEN "naive" ELSE "split"

\* a faulty variant: no base case
recursion_step_no_base(n) ==
    IF n < 0 THEN "naive"
    ELSE IF n % 2 # 0 THEN "pad" ELSE "split"

\* a faulty variant: the threshold itself is split
recursion_step_below_threshold(n) ==
    IF n < STRASSEN_OMP_THRESHOLD THEN "naive"
    ELSE IF n % 2 # 0 THEN "pad" ELSE "split"

\* what a call does with operands of size n
recursion_step(n) ==
    IF n <= STRASSEN_OMP_THRESHOLD THEN "naive"
    ELSE IF n % 2 # 0 THEN "pad" ELSE "split"

\* a faulty variant: the quotient alone
section_budget_quotient(num_threads) == num_threads \div 7

\* the budget of each of the seven recursive calls
section_budget(num_threads) == num_threads \div 7 + 1

\* the operands of section i
section_operands(i, Q) ==
    CASE i = 1 -> [X |-> plus(Q.A11, Q.A22).val, Y |-> plus(Q.B11, Q.B22).val]
      [] i = 2 -> [X |-> plus(Q.A21, Q.A22).val, Y |-> Q.B11]
      [] i = 3 -> [X |-> Q.A11, Y |-> minus(Q.B12, Q.B22).val]
      [] i = 4 -> [X |-> Q.A22, Y |-> minus(Q.B21, Q.B11).val]
      [] i = 5 -> [X |-> plus(Q.A11, Q.A12).val, Y |-> Q.B22]
      [] i = 6 -> [X |-> minus(Q.A21, Q.A11).val, Y |-> plus(Q.B11, Q.B12).val]
      [] i = 7 -> [X |-> minus(Q.A12, Q.A22).val, Y |-> plus(Q.B21, Q.B22).val]

\* the frame of a call that has just been entered
Entered(X, Y, num_threads) ==
    [X |-> X, Y |-> Y, num_threads |-> num_threads, at |-> "entry", got |-> <<>>]

Top == team.stack[Len(team.stack)]
NoCall == [how |-> "none"]

\* the innermost call returns val to its caller
ReturnTo(val, how, omp) ==
    LET d == Len(team.stack)
        call == [how |-> how, X |-> Top.X, Y |-> Top.Y, num_threads |-> Top.num_threads,
                 val |-> val, omp |-> omp, depth |-> d]
    IN IF d = 1
       THEN [team EXCEPT !.at = "returned", !.stack = <<>>, !.result = val, !.last = call]
       ELSE [team EXCEPT !.stack = [SubSeq(@, 1, d - 1) EXCEPT ![d - 1].got = Append(@, val)],
                         !.last = call]

\* the example of the specification: A = [[1,2,3],[4,5,6],[7,8,9]] and the identity
ExampleA == [rows |-> 3, cols |-> 3, data |-> <<1, 2, 3, 4, 5, 6, 7, 8, 9>>]
ExampleI == [rows |-> 3, cols |-> 3, data |-> <<1, 0, 0, 0, 1, 0, 0, 0, 1>>]

\* the size whose halves are odd and above the threshold: it pads one level down
DeepSizes == {2 * (STRASSEN_OMP_THRESHOLD + 1)}

\* the budgets of the outermost call
Budgets == (1..MaxThreads) \cup {7 * MaxThreads}

InitRecursion ==
    /\ Standalone
    /\ mem = NoMem
    /\ \E n \in (0..MaxDim) \cup ThresholdSizes \cup DeepSizes, seed \in 0..MaxSeed,
          example \in BOOLEAN,
          opt \in {DefaultOpt, Opt(TRUE, MaxBlock)}, num_threads \in Budgets :
          /\ n > MaxDim => (seed = 0 /\ opt = DefaultOpt)
          /\ n > MaxDim => num_threads = 7 * MaxThreads
          /\ example => (n = 3 /\ seed = 0)
          /\ A = (IF example THEN ExampleA ELSE Gen(n, n, seed))
          /\ B = (IF example THEN ExampleI ELSE Gen(n, n, seed + 1))
          /\ config = [Config(STRASSEN, OPENMP, opt) EXCEPT !.num_threads = num_threads]
    /\ team = [at |-> "recursion",
               stack |-> <<Entered(A, B, config.num_threads)>>,
               result |-> Matrix(0, 0),
               last |-> NoCall]

\* n <= STRASSEN_OMP_THRESHOLD: return naive::openmp(A, B, opt, num_threads)
BaseCase ==
    /\ team.at = "recursion"
    /\ Top.at = "entry"
    /\ recursion_step(Top.X.rows) = "naive"
    /\ LET res == naive_openmp(Top.X, Top.Y, config.optimization, Top.num_threads)
       IN team' = ReturnTo(res.val, "naive", res.omp)
    /\ UNCHANGED program /\ UNCHANGED mem

\* n odd: the padded operands, and the call at the padded size
PadOperands ==
    /\ team.at = "recursion"
    /\ Top.at = "entry"
    /\ recursion_step(Top.X.rows) = "pad"
    /\ LET d == Len(team.stack)
           n == Top.X.rows
       IN team' = [team EXCEPT
             !.stack = Append([@ EXCEPT ![d].at = "padded"],
                              Entered(pad(Top.X, n), pad(Top.Y, n), Top.num_threads))]
    /\ UNCHANGED program /\ UNCHANGED mem

\* the padded call has returned: the result is cropped and returned
CropResult ==
    /\ team.at = "recursion"
    /\ Top.at = "padded"
    /\ Len(Top.got) = 1
    /\ team' = ReturnTo(crop(Top.got[1], Top.X.rows), "padded", 0)
    /\ UNCHANGED program /\ UNCHANGED mem

\* n even: the quadrants are taken and M1..M7 declared
SplitQuadrants ==
    /\ team.at = "recursion"
    /\ Top.at = "entry"
    /\ recursion_step(Top.X.rows) = "split"
    /\ team' = [team EXCEPT !.stack[Len(team.stack)].at = "sections"]
    /\ UNCHANGED program /\ UNCHANGED mem

\* the next section makes its recursive call
Section ==
    /\ team.at = "recursion"
    /\ Top.at = "sections"
    /\ Len(Top.got) < 7
    /\ LET ops == section_operands(Len(Top.got) + 1, Quadrants(Top.X, Top.Y))
       IN team' = [team EXCEPT
             !.stack = Append(@, Entered(ops.X, ops.Y, section_budget(Top.num_threads)))]
    /\ UNCHANGED program /\ UNCHANGED mem

\* the seven products are there: the quadrants of the result, and `return C`
CombineQuadrants ==
    /\ team.at = "recursion"
    /\ Top.at = "sections"
    /\ Len(Top.got) = 7
    /\ LET n == Top.X.rows
           M == Top.got
       IN team' = ReturnTo(combine(n, n \div 2, quadrant_C11(M[1], M[4], M[5], M[7]),
                                   quadrant_C12(M[3], M[5]), quadrant_C21(M[2], M[4]),
                                   quadrant_C22(M[1], M[2], M[3], M[6])), "split", 0)
    /\ UNCHANGED program /\ UNCHANGED mem

RecursionNext ==
    BaseCase \/ PadOperands \/ CropResult \/ SplitQuadrants \/ Section \/ CombineQuadrants

SpecRecursion == InitRecursion /\ [][RecursionNext]_vars

\* ------------------------ strassen_recursive_omp, one path of calls
\* The sizes and budgets along one path of the call tree.  Which way a call
\* goes depends on the size of its operands only, and the operands of each of
\* the seven sections are half-size squares; so a path is told by the size
\* and the budget of each call: team.n and team.num_threads are those of the
\* innermost call, team.trail those of its callers, outermost first, with
\* what each did.
MaxSize == 300
MaxBudget == 60

InitDescent ==
    /\ NoProgram
    /\ mem = NoMem
    /\ \E n \in 0..MaxSize, num_threads \in 1..MaxBudget :
          team = [at |-> "descent", n |-> n, num_threads |-> num_threads, trail |-> <<>>]

Caller(how) == [n |-> team.n, num_threads |-> team.num_threads, how |-> how]

\* the call pads (A_padded is padded_n x padded_n) and calls itself
DescendPad ==
    /\ team.at = "descent"
    /\ recursion_step(team.n) = "pad"
    /\ team' = [team EXCEPT !.n = @ + 1, !.trail = Append(@, Caller("pad"))]
    /\ UNCHANGED program /\ UNCHANGED mem

\* the call splits, and one of its seven sections calls it on half x half operands
DescendSection ==
    /\ team.at = "descent"
    /\ recursion_step(team.n) = "split"
    /\ \E i \in Sections :
          team' = [team EXCEPT !.n = @ \div 2,
                               !.num_threads = section_budget(@),
                               !.trail = Append(@, Caller("split"))]
    /\ UNCHANGED program /\ UNCHANGED mem

\* the call goes to naive::openmp: the path ends
DescendBase ==
    /\ team.at = "descent"
    /\ recursion_step(team.n) = "naive"
    /\ team' = [team EXCEPT !.at = "base"]
    /\ UNCHANGED program /\ UNCHANGED mem

DescentNext == DescendPad \/ DescendSection \/ DescendBase

\* a call that has been made runs
SpecDescent == InitDescent /\ [][DescentNext]_vars /\ WF_vars(DescentNext)

\* ---------------------------------------------------- run_verification_suite
algorithm_to_string(a) ==
    CASE a = NAIVE -> "Naive"
      [] a = STRASSEN -> "Strassen"
      [] a = OPENBLAS -> "OpenBLAS"
      [] OTHER -> "Unknown"

\* The algorithms compute in floating point, so two of them may return products
\* that differ in the last places.  suite.rounding[k] is what the k-th run of the
\* suite is off by, in units of an entry, at its first entry; the runs past the
\* end of suite.rounding are exact.
Rounded(M, k) ==
    IF k > Len(suite.rounding) \/ Len(M.data) = 0 THEN M
    ELSE [M EXCEPT !.data[1] = @ + suite.rounding[k]]

\* the suite has run every selected algorithm
SuiteAllRun == Len(suite.results) = Len(suite.verify_algorithms)
\* the pair loops `for i, for j = i + 1` have a pair (i, j) left
SuitePairLeft == suite.j < Len(suite.results)

\* `Matrix C = multiply(A, B, algo_config)` for the next selected algorithm, up to
\* its return, its throw or its MPI_Allgatherv call, then the three push_backs
SuiteRun(r) ==
    /\ ~aborted
    /\ r = 0 /\ pc[r] = "suite"
    /\ ~SuiteAllRun
    /\ LET algo == suite.verify_algorithms[Len(suite.results) + 1]
           algo_config == [config EXCEPT !.algorithm = algo]
           res == multiply(A, B, algo_config, r, nprocs)
       IN /\ omp_threads' = [omp_threads EXCEPT ![r] =
                                IF "omp" \in DOMAIN res THEN res.omp ELSE @]
          /\ IF res.err # ""
             THEN /\ pc' = [pc EXCEPT ![r] = "threw"]
                  /\ result' = [result EXCEPT ![r] = res]
                  /\ UNCHANGED <<frame, wire, suite>>
             ELSE IF "frame" \in DOMAIN res
             THEN /\ pc' = [pc EXCEPT ![r] = "suite_allgather"]
                  /\ frame' = [frame EXCEPT ![r] = res.frame]
                  /\ wire' = [wire EXCEPT ![r] = Append(@, Contribution(res.frame))]
                  /\ UNCHANGED <<result, suite>>
             ELSE /\ suite' = [suite EXCEPT
                                 !.results = Append(@, Rounded(res.val, Len(@) + 1)),
                                 !.labels = Append(@, algorithm_to_string(algo))]
                  /\ UNCHANGED <<pc, result, frame, wire>>
    /\ UNCHANGED <<A, B, config, nprocs, argv, flags, aborted>>
    /\ UNCHANGED <<mem, team>>

\* the MPI_Allgatherv call of a distributed algorithm run by the suite returns
SuiteAllgatherv(r) ==
    /\ ~aborted
    /\ r = 0 /\ pc[r] = "suite_allgather"
    /\ Matched(r, "allgatherv")
    /\ LET contrib == [q \in Ranks |-> wire[q][Len(wire[r])]]
           F == frame[r]
           algo == suite.verify_algorithms[Len(suite.results) + 1]
       IN IF allgatherv_matches(F.sendcounts, contrib, nprocs)
          THEN /\ pc' = [pc EXCEPT ![r] = "suite"]
               /\ suite' = [suite EXCEPT
                     !.results = Append(@, Rounded([F.C EXCEPT !.data =
                         allgatherv_store(F.C.data, F.sendcounts, F.displs, contrib, 0, nprocs)],
                         Len(@) + 1)),
                     !.labels = Append(@, algorithm_to_string(algo))]
          ELSE /\ pc' = [pc EXCEPT ![r] = "mpi_error"]
               /\ UNCHANGED suite
    /\ UNCHANGED <<A, B, config, nprocs, frame, result, omp_threads, wire, argv, flags, aborted>>
    /\ UNCHANGED <<mem, team>>

\* a faulty variant: all_passed is assigned the outcome of each comparison, so
\* the last pair decides the overall status
SuiteCompare_last_wins(r) ==
    /\ ~aborted
    /\ r = 0 /\ pc[r] = "suite"
    /\ SuiteAllRun /\ SuitePairLeft
    /\ \E indeterminate \in Indeterminate :
       LET cmp == compare(suite.results[suite.i + 1], suite.results[suite.j + 1],
                          abs_tolerance, rel_tolerance, indeterminate)
           last == suite.j + 1 >= Len(suite.results)
       IN suite' = [suite EXCEPT
             !.reports = Append(@, [label1 |-> suite.labels[suite.i + 1],
                                    label2 |-> suite.labels[suite.j + 1], cmp |-> cmp,
                                    i |-> suite.i, j |-> suite.j]),
             !.all_passed = cmp.all_close,
             !.i = IF last THEN @ + 1 ELSE @,
             !.j = IF last THEN suite.i + 2 ELSE @ + 1]
    /\ UNCHANGED <<A, B, config, nprocs, pc, frame, result, omp_threads, wire, argv, flags, aborted>>
    /\ UNCHANGED <<mem, team>>

\* one pass of the body of the pairwise loops, and the step to the next pair
SuiteCompare(r) ==
    /\ ~aborted
    /\ r = 0 /\ pc[r] = "suite"
    /\ SuiteAllRun /\ SuitePairLeft
    /\ \E indeterminate \in Indeterminate :
       LET cmp == compare(suite.results[suite.i + 1], suite.results[suite.j + 1],
                          abs_tolerance, rel_tolerance, indeterminate)
           last == suite.j + 1 >= Len(suite.results)
       IN suite' = [suite EXCEPT
             !.reports = Append(@, [label1 |-> suite.labels[suite.i + 1],
                                    label2 |-> suite.labels[suite.j + 1], cmp |-> cmp,
                                    i |-> suite.i, j |-> suite.j]),
             !.all_passed = IF ~cmp.all_close THEN FALSE ELSE @,
             !.i = IF last THEN @ + 1 ELSE @,
             !.j = IF last THEN suite.i + 2 ELSE @ + 1]
    /\ UNCHANGED <<A, B, config, nprocs, pc, frame, result, omp_threads, wire, argv, flags, aborted>>
    /\ UNCHANGED <<mem, team>>

\* the summary: "ALL TESTS PASSED" or "SOME TESTS FAILED", and the return
SuiteSummary(r) ==
    /\ ~aborted
    /\ r = 0 /\ pc[r] = "suite"
    /\ SuiteAllRun /\ ~SuitePairLeft
    /\ suite' = [suite EXCEPT !.status =
                    IF suite.all_passed THEN "ALL TESTS PASSED" ELSE "SOME TESTS FAILED"]
    /\ pc' = [pc EXCEPT ![r] = "suite_done"]
    /\ UNCHANGED <<A, B, config, nprocs, frame, result, omp_threads, wire, argv, flags, aborted>>
    /\ UNCHANGED <<mem, team>>

SuiteRunStep == \E r \in Ranks : SuiteRun(r)
SuiteAllgathervStep == \E r \in Ranks : SuiteAllgatherv(r)
SuiteCompareStep == \E r \in Ranks : SuiteCompare(r)
SuiteSummaryStep == \E r \in Ranks : SuiteSummary(r)

\* run_verification_suite called on rank 0 with any selection of up to MaxAlgos
\* algorithms, in each execution mode, on square operands of size 1 and 2
\* and on one pair of operands whose inner dimensions differ, each run exact or
\* off by one unit
MaxAlgos == 3
Selections == UNION {[1..len -> Algorithm] : len \in 0..MaxAlgos}
SuiteShapes == {s \in Shapes : s[1] \in {1, 2} /\ s[2] = s[1] /\ s[4] = s[1]
                                /\ (s[3] = s[2] \/ s[1] = 1)}

InitSuite ==
    /\ \E md \in ExecutionMode : config = Config(NAIVE, md, DefaultOpt)
    /\ nprocs = 1
    /\ \E s \in SuiteShapes :
          /\ A = Gen(s[1], s[2], 0)
          /\ B = Gen(s[3], s[4], 1)
    /\ pc = [r \in Ranks |-> "suite"]
    /\ frame = [r \in Ranks |-> NoFrame]
    /\ result = [r \in Ranks |-> NoResult]
    /\ omp_threads = [r \in Ranks |-> 0]
    /\ wire = [r \in Ranks |-> <<>>]
    /\ argv = NoArgs
    /\ flags = [r \in Ranks |-> [DefaultFlags EXCEPT !.verification_mode = TRUE]]
    /\ \E sel \in Selections : \E rounding \in [1..Len(sel) -> {0, 1}] :
          suite = [NoSuite EXCEPT !.verify_algorithms = sel, !.rounding = rounding]
    /\ aborted = FALSE
    /\ mem = NoMem /\ team = NoTeam

SuiteNext == SuiteRunStep \/ SuiteAllgathervStep \/ SuiteCompareStep \/ SuiteSummaryStep

SpecSuite == InitSuite /\ [][SuiteNext]_vars


\* ------------------------------------------------------------------- main()
\* One run of the program on nprocs ranks.  `config`, A and B are what rank 0
\* holds after parse_arguments and after generating the matrices; the other
\* ranks read them once the MPI_Bcast that carries them has returned.
UnknownArgument == "Unknown argument"

\* the outcomes of parse_arguments on rank 0: the options parsed ("ok"),
\* --help (returns false, as does a cancelled menu), an unknown argument (throws)
Args ==
    [outcome : {"ok"}, algorithm : Algorithm, mode : ExecutionMode,
     matrix_size : 1..MaxDim, verify : BOOLEAN, validate : BOOLEAN]
    \cup [outcome : {"help", "unknown"}, algorithm : {NAIVE}, mode : {SEQUENTIAL},
          matrix_size : {1}, verify : {FALSE}, validate : {FALSE}]

\* --verify selects the three algorithms
VerifyAll == <<NAIVE, STRASSEN, OPENBLAS>>

Bcast == [kind |-> "bcast", count |-> 0, data |-> <<>>]
Finalized == [kind |-> "finalize", count |-> 0, data |-> <<>>]

InitMain ==
    /\ argv \in Args
    /\ nprocs \in 1..MaxProcs
    /\ config = Config(argv.algorithm, argv.mode, DefaultOpt)
    /\ \E seed \in 0..MaxSeed :
          /\ A = Gen(argv.matrix_size, argv.matrix_size, seed)
          /\ B = Gen(argv.matrix_size, argv.matrix_size, seed + 1)
    /\ pc = [r \in Ranks |-> "start"]
    /\ frame = [r \in Ranks |-> NoFrame]
    /\ result = [r \in Ranks |-> NoResult]
    /\ omp_threads = [r \in Ranks |-> 0]
    /\ wire = [r \in Ranks |-> <<>>]
    /\ flags = [r \in Ranks |-> DefaultFlags]
    /\ suite = NoSuite
    /\ aborted = FALSE
    /\ mem = NoMem /\ team = NoTeam

\* After MPI_Init: rank 0 parses the command line, the other ranks go straight
\* to the broadcasts.  --help ends in MPI_Abort(0), an unknown argument throws.
Start(r) ==
    /\ ~aborted
    /\ pc[r] = "start"
    /\ IF r # 0 \/ argv.outcome = "ok"
       THEN /\ pc' = [pc EXCEPT ![r] = "bcast_config"]
            /\ flags' = [flags EXCEPT ![r] =
                  IF r = 0 THEN [@ EXCEPT !.verification_mode = argv.verify,
                                          !.validate_against_openblas = argv.validate]
                  ELSE @]
            /\ suite' = IF r = 0 /\ argv.verify
                        THEN [suite EXCEPT !.verify_algorithms = VerifyAll] ELSE suite
            /\ UNCHANGED <<result, aborted>>
       ELSE IF argv.outcome = "help"
       THEN /\ aborted' = TRUE
            /\ pc' = [pc EXCEPT ![r] = "aborted"]
            /\ UNCHANGED <<result, flags, suite>>
       ELSE /\ pc' = [pc EXCEPT ![r] = "threw"]
            /\ result' = [result EXCEPT ![r] = Throw(UnknownArgument)]
            /\ UNCHANGED <<flags, suite, aborted>>
    /\ UNCHANGED <<A, B, config, nprocs, frame, omp_threads, wire, argv>>
    /\ UNCHANGED <<mem, team>>

\* the branch main() takes after the matrices have been broadcast
AfterBroadcasts(r) ==
    IF flags[r].verification_mode
    THEN (IF r = 0 THEN "suite" ELSE "finalize")
    ELSE "call"

\* The MPI_Bcast calls rooted at rank 0: those of the config fields, then those
\* of A and B.  The root's call returns at once; another rank's call returns
\* when the root has made its call of the same ordinal.
Broadcast(r) ==
    /\ ~aborted
    /\ pc[r] \in {"bcast_config", "bcast_matrices"}
    /\ r # 0 => /\ Len(wire[0]) > Len(wire[r])
                /\ wire[0][Len(wire[r]) + 1].kind = "bcast"
    /\ wire' = [wire EXCEPT ![r] = Append(@, Bcast)]
    /\ pc' = [pc EXCEPT ![r] =
                 IF pc[r] = "bcast_config" THEN "bcast_matrices" ELSE AfterBroadcasts(r)]
    /\ UNCHANGED <<A, B, config, nprocs, frame, result, omp_threads, argv, flags, suite, aborted>>
    /\ UNCHANGED <<mem, team>>

\* multiply has returned: rank 0 validates against the reference when asked
\* to and prints the results; every rank goes on to MPI_Finalize
Report(r) ==
    /\ ~aborted
    /\ pc[r] = "returned"
    /\ IF r = 0 /\ flags[r].validate_against_openblas
       THEN LET reference == openblas_multiply(A, B)
            IN IF reference.err # ""
               THEN /\ pc' = [pc EXCEPT ![r] = "threw"]
                    /\ result' = [result EXCEPT ![r] = reference]
                    /\ UNCHANGED flags
               ELSE /\ pc' = [pc EXCEPT ![r] = "finalize"]
                    /\ \E indeterminate \in Indeterminate :
                          flags' = [flags EXCEPT ![r] = [@ EXCEPT
                             !.validation_performed = TRUE,
                             !.validation_passed =
                                 compare(result[r].val, reference.val, abs_tolerance,
                                         rel_tolerance, indeterminate).all_close]]
                    /\ UNCHANGED result
       ELSE /\ pc' = [pc EXCEPT ![r] = "finalize"]
            /\ UNCHANGED <<result, flags>>
    /\ UNCHANGED <<A, B, config, nprocs, frame, omp_threads, wire, argv, suite, aborted>>
    /\ UNCHANGED <<mem, team>>

\* catch (const std::exception&): MPI_Abort(MPI_COMM_WORLD, 1)
Catch(r) ==
    /\ ~aborted
    /\ pc[r] = "threw"
    /\ aborted' = TRUE
    /\ pc' = [pc EXCEPT ![r] = "aborted"]
    /\ UNCHANGED <<A, B, config, nprocs, frame, result, omp_threads, wire, argv, flags, suite>>
    /\ UNCHANGED <<mem, team>>

\* MPI_Finalize, reached after the multiply or after the suite has returned
Finalize(r) ==
    /\ ~aborted
    /\ pc[r] \in {"finalize", "suite_done"}
    /\ wire' = [wire EXCEPT ![r] = Append(@, Finalized)]
    /\ pc' = [pc EXCEPT ![r] = "finalized"]
    /\ UNCHANGED <<A, B, config, nprocs, frame, result, omp_threads, argv, flags, suite, aborted>>
    /\ UNCHANGED <<mem, team>>

StartStep == \E r \in Ranks : Start(r)
BroadcastStep == \E r \in Ranks : Broadcast(r)
ReportStep == \E r \in Ranks : Report(r)
CatchStep == \E r \in Ranks : Catch(r)
FinalizeStep == \E r \in Ranks : Finalize(r)

MainNext ==
    \/ StartStep
    \/ BroadcastStep
    \/ CallStep
    \/ AllgathervStep
    \/ ReportStep
    \/ CatchStep
    \/ FinalizeStep
    \/ SuiteRunStep
    \/ SuiteAllgathervStep
    \/ SuiteCompareStep
    \/ SuiteSummaryStep

SpecMain == InitMain /\ [][MainNext]_vars

\* Rank r has a step of MainNext to take.
MainCanStep(r) ==
    /\ ~aborted
    /\ \/ pc[r] \in {"start", "call", "returned", "threw", "finalize", "suite", "suite_done"}
       \/ /\ pc[r] \in {"bcast_config", "bcast_matrices"}
          /\ r # 0 => /\ Len(wire[0]) > Len(wire[r])
                      /\ wire[0][Len(wire[r]) + 1].kind = "bcast"
       \/ /\ pc[r] \in {"allgather", "suite_allgather"}
          /\ Matched(r, "allgatherv")

\* ------------------------------------- main(), the input matrices rank by rank
\* main() from the construction of A and B to the branch that multiplies, with
\* the matrices each rank holds: mem.A[r] and mem.B[r].  mem.matrix_size is
\* config.matrix_size as every rank has it after the broadcast of the
\* configuration, mem.file what --input names on rank 0 (no file, a file
\* read_matrix rejects, or the table of a file it accepts), mem.sent the
\* buffers rank 0 has handed to its MPI_Bcast calls so far.
NoFile == [given |-> FALSE]
BadFile == [given |-> TRUE, readable |-> FALSE]
GoodFile(M) == [given |-> TRUE, readable |-> TRUE, table |-> M]

\* what a read past the end of the root's buffer may find
Stale == {0, 9}

\* CsvIO::read_matrix on a file it accepts: resize to the table's shape, then
\* every element assigned
read_matrix(matrix, file) ==
    [rows |-> file.table.rows, cols |-> file.table.cols, data |-> file.table.data]

\* the count values MPI_Bcast reads at buf on the root: the buffer's, and
\* past its end whatever is there
bcast_reads(data, count) ==
    {Vec([x \in 1..count |-> IF x <= Len(data) THEN data[x] ELSE past[x]], count) :
        past \in [(Len(data) + 1)..count -> Stale]}

\* the count values MPI_Bcast stores at buf on another rank
bcast_stores(data, count, message) ==
    Vec([x \in 1..Max(Len(data), count) |->
        IF x <= count THEN message[x] ELSE data[x]], Max(Len(data), count))

InputSizes == 1..(MaxDim - 1)
InputFiles ==
    {NoFile, BadFile}
    \cup {GoodFile(Gen(rc[1], rc[2], 0)) : rc \in InputSizes \X InputSizes}

InitInput ==
    /\ nprocs \in 1..MaxProcs
    /\ A = Matrix(0, 0) /\ B = Matrix(0, 0)
    /\ config = Config(NAIVE, MPI, DefaultOpt)
    /\ pc = [r \in Ranks |-> "none"]
    /\ frame = [r \in Ranks |-> NoFrame]
    /\ result = [r \in Ranks |-> NoResult]
    /\ omp_threads = [r \in Ranks |-> 0]
    /\ wire = [r \in Ranks |-> <<>>]
    /\ argv = NoArgs
    /\ flags = [r \in Ranks |-> DefaultFlags]
    /\ suite = NoSuite
    /\ aborted = FALSE
    /\ team = NoTeam
    /\ \E matrix_size \in InputSizes, file \in InputFiles :
          mem = [at |-> "input", matrix_size |-> matrix_size, file |-> file,
                 step |-> [r \in Ranks |-> "construct"],
                 A |-> [r \in Ranks |-> Matrix(0, 0)],
                 B |-> [r \in Ranks |-> Matrix(0, 0)],
                 sent |-> <<>>]

\* Matrix A(config.matrix_size), B(config.matrix_size); on rank 0 the file is
\* loaded into A and copied to B, or both are filled with random values
Prepare(r) ==
    /\ ~aborted
    /\ mem.at = "input"
    /\ mem.step[r] = "construct"
    /\ LET A0 == Matrix(mem.matrix_size, mem.matrix_size)
           B0 == Matrix(mem.matrix_size, mem.matrix_size)
       IN IF r # 0
          THEN /\ mem' = [mem EXCEPT !.A[r] = A0, !.B[r] = B0, !.step[r] = "bcast_A"]
               /\ UNCHANGED aborted
          ELSE IF ~mem.file.given
          THEN /\ \E seedA \in 0..MaxSeed, seedB \in 0..MaxSeed :
                     mem' = [mem EXCEPT
                        !.A[r] = Gen(A0.rows, A0.cols, seedA),
                        !.B[r] = Gen(B0.rows, B0.cols, seedB),
                        !.step[r] = "bcast_A"]
               /\ UNCHANGED aborted
          ELSE IF ~mem.file.readable
          THEN /\ aborted' = TRUE
               /\ mem' = [mem EXCEPT !.A[r] = A0, !.B[r] = B0, !.step[r] = "aborted"]
          ELSE /\ mem' = [mem EXCEPT !.A[r] = read_matrix(A0, mem.file),
                                     !.B[r] = read_matrix(A0, mem.file),
                                     !.step[r] = "bcast_A"]
               /\ UNCHANGED aborted
    /\ UNCHANGED <<A, B, config, nprocs, pc, frame, result, omp_threads, wire, argv, flags, suite>>
    /\ UNCHANGED team

\* MPI_Bcast(A.data(), matrix_size * matrix_size, ...) then the same for B:
\* on rank 0 the call reads the values and returns, or, reading past the end
\* of a buffer shorter than the count, ends the run; on another rank it
\* returns once rank 0 has made the matching call, with the values stored
BcastMatrix(r) ==
    /\ ~aborted
    /\ mem.at = "input"
    /\ mem.step[r] \in {"bcast_A", "bcast_B"}
    /\ LET which == IF mem.step[r] = "bcast_A" THEN 1 ELSE 2
           count == mem.matrix_size * mem.matrix_size
           after == IF which = 1 THEN "bcast_B" ELSE "ready"
           own == IF which = 1 THEN mem.A[r] ELSE mem.B[r]
       IN IF r = 0
          THEN \/ /\ \E message \in bcast_reads(own.data, count) :
                        mem' = [mem EXCEPT !.sent = Append(@, message), !.step[r] = after]
                  /\ UNCHANGED aborted
               \/ /\ count > Len(own.data)
                  /\ mem' = [mem EXCEPT !.step[r] = "aborted"]
                  /\ aborted' = TRUE
          ELSE /\ Len(mem.sent) >= which
               /\ LET got == [own EXCEPT !.data = bcast_stores(@, count, mem.sent[which])]
                  IN mem' = IF which = 1
                            THEN [mem EXCEPT !.A[r] = got, !.step[r] = after]
                            ELSE [mem EXCEPT !.B[r] = got, !.step[r] = after]
               /\ UNCHANGED aborted
    /\ UNCHANGED <<A, B, config, nprocs, pc, frame, result, omp_threads, wire, argv, flags, suite>>
    /\ UNCHANGED team

PrepareStep == \E r \in Ranks : Prepare(r)
BcastMatrixStep == \E r \in Ranks : BcastMatrix(r)

InputNext == PrepareStep \/ BcastMatrixStep

SpecInput == InitInput /\ [][InputNext]_vars

\* ================================================================ claims
Is(a, md) == config.algorithm = a /\ config.mode = md
AllReturned == \A r \in Ranks : pc[r] = "returned"
AllInFrame == \A r \in Ranks : frame[r] # NoFrame
Unblocked == [cache_friendly |-> FALSE, use_blocking |-> FALSE,
              block_size |-> config.optimization.block_size]

\* C1: the matrix naive::mpi returns on every rank after the all-gather is,
\* element for element, the matrix naive::sequential returns on the same
\* operands and options, for every communicator size, also when the rows of A
\* do not divide evenly among the ranks.
C1_MpiEqualsSequential ==
    Is(NAIVE, MPI) =>
        \A r \in Ranks : pc[r] = "returned" =>
            result[r] = naive_sequential(A, B, config.optimization)

C1_Witness ==
    /\ Is(NAIVE, MPI) /\ AllReturned
    /\ nprocs >= 2 /\ A.rows % nprocs # 0 /\ A.rows > nprocs
    /\ A.cols >= 2 /\ B.cols >= 2

\* C2: in naive::mpi, strassen::mpi and strassen::hybrid the row ranges
\* [row_offset, row_offset + local_rows) of the ranks are contiguous in rank
\* order, start at 0 and end at totalRows (so they are disjoint and cover the
\* rows exactly), also when there are more ranks than rows; and on every rank
\* the receive counts are local_rows(q) * n and the displacements
\* row_offset(q) * n, tiling [0, totalRows * n) without gap or overlap.
C2_PartitionTiles ==
    (Is(NAIVE, MPI) \/ Is(STRASSEN, MPI) \/ Is(STRASSEN, HYBRID)) =>
        \A r \in Ranks : frame[r] # NoFrame =>
            LET F == frame[r]
                n == B.cols
            IN /\ F.local_rows >= 0
               /\ r = 0 => F.row_offset = 0
               /\ r = nprocs - 1 => F.row_offset + F.local_rows = A.rows
               /\ \A q \in Ranks : (q = r + 1 /\ frame[q] # NoFrame) =>
                      frame[q].row_offset = F.row_offset + F.local_rows
               /\ Len(F.sendcounts) = nprocs /\ Len(F.displs) = nprocs
               /\ F.displs[1] = 0
               /\ F.displs[nprocs] + F.sendcounts[nprocs] = A.rows * n
               /\ \A i \in 1..(nprocs - 1) : F.displs[i + 1] = F.displs[i] + F.sendcounts[i]
               /\ \A i \in 1..nprocs : F.sendcounts[i] >= 0
               /\ F.sendcounts[r + 1] = F.local_rows * n
               /\ F.displs[r + 1] = F.row_offset * n
               /\ Len(F.C.data) = A.rows * n

C2_Witness ==
    /\ Is(STRASSEN, HYBRID) /\ AllInFrame
    /\ nprocs > A.rows /\ A.rows >= 2
    /\ \E r \in Ranks : frame[r].local_rows = 0
    /\ \E r \in Ranks : frame[r].local_rows = 1 /\ frame[r].row_offset = 1

\* C3: for square A and B of the same size n, below, at and above the
\* recursion threshold, odd and even, the Strassen multiply returns exactly the
\* matrix the naive multiply returns on the integer-valued operands.
C3_StrassenEqualsNaive ==
    (config.algorithm = STRASSEN /\ config.mode \in {OPENMP, HYBRID}) =>
        \A r \in Ranks : pc[r] = "returned" =>
            result[r] = naive_sequential(A, B, DefaultOpt)

C3_Witness ==
    /\ Is(STRASSEN, OPENMP) /\ AllReturned
    /\ A.rows = STRASSEN_OMP_THRESHOLD + 1
    /\ \E x \in 1..Len(result[0].val.data) : result[0].val.data[x] # 0

\* C4: with cache blocking enabled, naive::sequential returns the matrix it
\* returns with blocking disabled, for every block size >= 1, dividing the
\* dimensions or not, larger than the matrix or not.
C4_BlockedEqualsUnblocked ==
    (Is(NAIVE, SEQUENTIAL) /\ config.optimization.cache_friendly
        /\ config.optimization.use_blocking) =>
        \A r \in Ranks : pc[r] = "returned" =>
            result[r] = naive_sequential(A, B, Unblocked)

C4_Witness ==
    /\ Is(NAIVE, SEQUENTIAL) /\ AllReturned
    /\ config.optimization.use_blocking /\ config.optimization.block_size = 2
    /\ A.rows = 3 /\ A.cols = 3 /\ B.cols = 3
    /\ \E x \in 1..9 : result[0].val.data[x] # 0

\* C5: in one distributed multiply called by all ranks with the same operands,
\* every rank enters exactly one all-gather, the count rank r sends is the
\* count every rank expects from r, no rank returns before every rank has
\* contributed its row slice, and eventually every rank has returned the same
\* full result matrix.
C5_Safe ==
    \A r \in Ranks :
        /\ Len(wire[r]) <= 1
        /\ pc[r] \notin {"mpi_error", "threw"}
        /\ pc[r] \in {"allgather", "returned"} => Len(wire[r]) = 1
        /\ pc[r] = "returned" => \A q \in Ranks : Len(wire[q]) = 1
        /\ frame[r] # NoFrame =>
              /\ wire[r][1].kind = "allgatherv"
              /\ wire[r][1].count = frame[r].sendcount
              /\ Len(wire[r][1].data) = frame[r].sendcount
              /\ \A q \in Ranks : frame[q] # NoFrame =>
                    frame[q].sendcounts[r + 1] = frame[r].sendcount

C5_AllHold ==
    /\ AllReturned
    /\ \A r \in Ranks : /\ result[r] = result[0]
                        /\ result[r].val.rows = A.rows
                        /\ result[r].val.cols = B.cols
                        /\ Len(result[r].val.data) = A.rows * B.cols

C5_OneGatherThenAllReturn == [](C5_Safe) /\ <>(C5_AllHold)

C5_Witness ==
    /\ Is(NAIVE, MPI) /\ nprocs >= 3 /\ A.rows = 2 /\ B.cols >= 2 /\ A.cols >= 1
    /\ C5_AllHold
    /\ \E r \in Ranks : frame[r].sendcount = 0
    /\ \E x \in 1..Len(result[0].val.data) : result[0].val.data[x] # 0

\* C6 as claimed: a run of the program ends with every rank having reached
\* MPI_Finalize or with the process group aborted, and no rank stays blocked
\* in a collective that another rank, already finalized, never enters; in
\* normal and in verification mode, for every mode and every process count.
BlockedForever(r) ==
    /\ pc[r] \in {"allgather", "suite_allgather"}
    /\ \E q \in Ranks :
          /\ pc[q] = "finalized"
          /\ Len(wire[q]) < Len(wire[r]) \/ wire[q][Len(wire[r])].kind # "allgatherv"

C6_AsClaimed ==
    ~aborted =>
        /\ \A r \in Ranks : ~BlockedForever(r)
        /\ (\A r \in Ranks : ~MainCanStep(r)) => \A r \in Ranks : pc[r] = "finalized"

\* the run `--verify -m mpi` on two ranks: rank 1 has finalized after its one
\* multiply while rank 0 waits in the all-gather of the suite's second algorithm
C6_Witness ==
    /\ nprocs = 2 /\ argv.verify /\ argv.mode = MPI /\ argv.algorithm = NAIVE
    /\ ~aborted
    /\ pc[1] = "finalized"
    /\ pc[0] = "suite_allgather" /\ Len(suite.results) = 1
    /\ \A r \in Ranks : ~MainCanStep(r)

\* C7: strassen::openmp, strassen::mpi and strassen::hybrid called with a
\* non-square A, a non-square B or squares of different size throw the
\* NonSquareInput error on every rank, having configured no thread pool,
\* computed nothing and entered no collective.
StrassenBadShape == ~is_square(A) \/ ~is_square(B) \/ A.rows # B.rows

C7_NonSquareFailsFirst ==
    (config.algorithm = STRASSEN /\ config.mode \in {OPENMP, MPI, HYBRID} /\ StrassenBadShape) =>
        \A r \in Ranks :
            /\ pc[r] \in {"call", "threw"}
            /\ pc[r] = "threw" => result[r] = Throw(NonSquareInput)
            /\ omp_threads[r] = 0
            /\ frame[r] = NoFrame
            /\ wire[r] = <<>>

C7_Witness ==
    /\ Is(STRASSEN, HYBRID) /\ nprocs >= 2
    /\ is_square(A) /\ is_square(B) /\ A.rows # B.rows /\ A.rows >= 1 /\ B.rows >= 1
    /\ \A r \in Ranks : pc[r] = "threw"

\* C8: naive::sequential, naive::openmp, naive::mpi and openblas::multiply
\* called with A.cols != B.rows throw the DimensionMismatch error and produce
\* no matrix; in the distributed variant no rank builds a partition or enters
\* the all-gather.
C8_DimensionMismatchFails ==
    ((config.algorithm = OPENBLAS
        \/ (config.algorithm = NAIVE /\ config.mode \in {SEQUENTIAL, OPENMP, MPI}))
        /\ A.cols # B.rows) =>
        \A r \in Ranks :
            /\ pc[r] \in {"call", "threw"}
            /\ pc[r] = "threw" => result[r] = Throw(DimensionMismatch)
            /\ frame[r] = NoFrame
            /\ wire[r] = <<>>

C8_Witness ==
    /\ Is(NAIVE, MPI) /\ nprocs >= 2
    /\ A.cols < B.rows /\ A.rows >= 1 /\ B.cols >= 1 /\ A.cols >= 1
    /\ \A r \in Ranks : pc[r] = "threw"

\* C9 (as amended): the dispatcher throws InvalidAlgorithmModeCombination
\* exactly when the algorithm is outside the Algorithm enumeration, or the
\* algorithm is Naive or Strassen and the mode is outside the ExecutionMode
\* enumeration; Reference is dispatched to the reference engine whatever the
\* mode, and every declared (algorithm, mode) pair reaches its implementation.
Dispatched ==
    \/ config.algorithm = OPENBLAS
    \/ config.algorithm \in {NAIVE, STRASSEN} /\ config.mode \in ExecutionMode

C9_DispatcherTotalOnEnums ==
    \A r \in Ranks : pc[r] # "call" =>
        ((pc[r] = "threw" /\ result[r] = Throw(InvalidAlgorithmModeCombination)) <=> ~Dispatched)

C9_Witness ==
    /\ config.algorithm = OPENBLAS /\ config.mode = MPI
    /\ pc[0] = "returned"
    /\ A.rows = 2 /\ A.cols = 2 /\ B.cols = 2
    /\ result[0] = openblas_multiply(A, B)

\* C9 as claimed: an implementation is registered for Naive and Strassen in
\* every mode and for Reference in the single mode SEQUENTIAL; the dispatcher
\* fails with InvalidAlgorithmModeCombination for every other pair and
\* returns a result only for a registered pair.
Registered ==
    \/ config.algorithm \in {NAIVE, STRASSEN} /\ config.mode \in ExecutionMode
    \/ config.algorithm = OPENBLAS /\ config.mode = SEQUENTIAL

C9_AsClaimed ==
    \A r \in Ranks : pc[r] # "call" =>
        /\ ~Registered => (pc[r] = "threw" /\ result[r] = Throw(InvalidAlgorithmModeCombination))
        /\ pc[r] = "returned" => Registered

\* C10 as claimed: a verification suite invoked with fewer than 2 selected
\* algorithms fails with the InsufficientSelection error: it runs no
\* comparison, reports no overall pass and does not return normally.
C10_AsClaimed ==
    Len(suite.verify_algorithms) < 2 =>
        /\ suite.reports = <<>>
        /\ suite.status # "ALL TESTS PASSED"
        /\ pc[0] # "suite_done"

\* the suite given a single algorithm has returned, having compared nothing
\* and reported the overall pass
C10_Witness ==
    /\ Len(suite.verify_algorithms) = 1
    /\ pc[0] = "suite_done"
    /\ suite.reports = <<>>
    /\ suite.status = "ALL TESTS PASSED"

\* what the k-th run of the suite returns: the product of A and B by the k-th
\* selected algorithm in the configured mode (on one process the local block of
\* a distributed algorithm is the whole product), as rounded in that run
SuiteProduct(k) ==
    LET res == multiply(A, B, [config EXCEPT !.algorithm = suite.verify_algorithms[k]],
                        0, nprocs)
    IN Rounded(IF "frame" \in DOMAIN res
               THEN [res.frame.C EXCEPT !.data = res.frame.C_local.data]
               ELSE res.val, k)

\* the pair of report p comes before the pair of report q in the order of the
\* loops `for i, for j = i + 1`
PairBefore(p, q) == p.i < q.i \/ (p.i = q.i /\ p.j < q.j)

\* C11: the verification suite over k selected algorithms runs them in selection
\* order, once each, on the same A and B in the same execution mode; only then
\* does it compare, each pair (i, j) with i < j once, in the order of the loops
\* and with the configured tolerances, k * (k - 1) / 2 comparisons when it
\* returns; and it reports "ALL TESTS PASSED" exactly when every one of those
\* comparisons passed.
C11_RunsOnceComparesEveryPair ==
    LET k == Len(suite.verify_algorithms)
        n == Len(suite.results)
        reports == suite.reports
    IN (flags[0].verification_mode /\ pc[0] \in {"suite", "suite_allgather", "suite_done"}) =>
        /\ n <= k /\ Len(suite.labels) = n
        /\ \A x \in 1..n :
              /\ suite.labels[x] = algorithm_to_string(suite.verify_algorithms[x])
              /\ suite.results[x] = SuiteProduct(x)
        /\ n < k => reports = <<>>
        /\ \A p \in 1..Len(reports) :
              /\ 0 <= reports[p].i /\ reports[p].i < reports[p].j /\ reports[p].j < n
              /\ \E indeterminate \in Indeterminate :
                    reports[p].cmp = compare(suite.results[reports[p].i + 1],
                                             suite.results[reports[p].j + 1],
                                             abs_tolerance, rel_tolerance, indeterminate)
              /\ \A q \in 1..Len(reports) : p < q => PairBefore(reports[p], reports[q])
        /\ suite.all_passed <=> \A p \in 1..Len(reports) : reports[p].cmp.all_close
        /\ pc[0] = "suite_done" =>
              /\ n = k
              /\ 2 * Len(reports) = k * (k - 1)
              /\ suite.status = "ALL TESTS PASSED" <=> suite.all_passed
              /\ suite.status = "SOME TESTS FAILED" <=> ~suite.all_passed

\* the suite over three algorithms, of which the third is off by one unit, has
\* returned: three comparisons, the first passed, the last failed
C11_Witness ==
    /\ pc[0] = "suite_done"
    /\ Len(suite.verify_algorithms) = 3 /\ Len(suite.results) = 3
    /\ Len(suite.reports) = 3
    /\ suite.reports[1].cmp.all_close
    /\ ~suite.reports[3].cmp.all_close
    /\ suite.status = "SOME TESTS FAILED"

\* the first comparison of a caller of Matrix::compare has returned
Compared == mem.at \in {"compared", "compared_both"}
SameShape == mem.this.rows = mem.other.rows /\ mem.this.cols = mem.other.cols

\* the statistics of a ComparisonResult other than failure_rate are zero
StatisticsZero(res) ==
    /\ res.max_abs_error = 0 /\ res.mean_abs_error = Zero
    /\ res.max_rel_error = Zero /\ res.mean_rel_error = Zero
    /\ res.rms_error = Zero
    /\ res.num_elements = 0 /\ res.num_failures = 0

\* C12 as claimed: comparing two matrices of different shapes returns a result
\* with pass = false and every statistic zero, the failure rate among them.
C12_AsClaimed ==
    (Compared /\ ~SameShape) =>
        /\ ~mem.result.all_close
        /\ StatisticsZero(mem.result)
        /\ mem.result.failure_rate = Zero

\* a 1 x 2 matrix has been compared with a 2 x 1 matrix: the result says
\* pass = false, its other statistics are zero, and its failure rate is what
\* the storage held, not zero
C12_Witness ==
    /\ Compared
    /\ mem.this.rows = 1 /\ mem.this.cols = 2
    /\ mem.other.rows = 2 /\ mem.other.cols = 1
    /\ ~mem.result.all_close
    /\ StatisticsZero(mem.result)
    /\ mem.result.failure_rate # Zero

\* the flat positions whose elements differ by more than the tolerance
\* max(absTol, relTol * max(|a|, |b|))
Failing ==
    {x \in 1..Len(mem.this.data) :
        Abs(mem.this.data[x] - mem.other.data[x]) * TolDen >
            Max(mem.abs_tol, mem.rel_tol * Max(Abs(mem.this.data[x]), Abs(mem.other.data[x])))}

\* C13: for two matrices of equal shape the comparison passes exactly when its
\* failure count is zero; the failure count is the number of positions whose
\* elements differ by more than max(absTol, relTol * max(|a|, |b|)), an
\* element whose difference equals that tolerance not being one of them; and
\* the element count is rows * cols.
C13_PassIffNoFailure ==
    (Compared /\ SameShape) =>
        /\ mem.result.all_close <=> mem.result.num_failures = 0
        /\ mem.result.num_failures = Cardinality(Failing)
        /\ mem.result.num_elements = mem.this.rows * mem.this.cols

\* (1 2) has been compared with (0 0) under absTol 1.0: the first element is
\* exactly at the tolerance and does not fail, the second fails
C13_Witness ==
    /\ Compared
    /\ mem.this = [rows |-> 1, cols |-> 2, data |-> <<1, 2>>]
    /\ mem.other = [rows |-> 1, cols |-> 2, data |-> <<0, 0>>]
    /\ mem.abs_tol = TolDen /\ mem.rel_tol = rel_tolerance
    /\ mem.result.num_failures = 1 /\ mem.result.num_elements = 2
    /\ ~mem.result.all_close

\* C14: a matrix compared with itself passes, with maximum absolute error 0
\* and failure count 0, whatever the matrix and the positive tolerances.
C14_SelfComparisonPasses ==
    (Compared /\ mem.this = mem.other /\ mem.abs_tol > 0 /\ mem.rel_tol > 0) =>
        /\ mem.result.all_close
        /\ mem.result.max_abs_error = 0
        /\ mem.result.num_failures = 0

\* a matrix of two non-zero elements has been compared with itself
C14_Witness ==
    /\ Compared
    /\ mem.this = mem.other
    /\ mem.this.data = <<2, -1>>
    /\ mem.result.all_close /\ mem.result.num_elements = 2

\* the fields of a ComparisonResult that compare() assigns on every path
Assigned(res) == [f \in DOMAIN res \ {"failure_rate"} |-> res[f]]

InRegion(i, j) ==
    /\ mem.call.region[1] <= i /\ i < mem.call.region[3]
    /\ mem.call.region[2] <= j /\ j < mem.call.region[4]

\* what M.submatrix(region) is, read off M as it was
RegionOf(X) ==
    LET reg == mem.call.region
    IN [rows |-> reg[3] - reg[1], cols |-> reg[4] - reg[2],
        data |-> Vec([x \in 1..((reg[3] - reg[1]) * (reg[4] - reg[2])) |->
                    X.data[(reg[1] + RowOf(x, reg[4] - reg[2])) * X.cols
                           + reg[2] + ColOf(x, reg[4] - reg[2]) + 1]],
                    (reg[3] - reg[1]) * (reg[4] - reg[2]))]

\* C16: for a region inside M, R = M.submatrix(region) is the region of M in
\* a buffer of its own, so that writing to R leaves M as it was and writing to
\* M leaves R as it was; M.set_submatrix(r0, c0, R) gives the cells of the
\* region the values of R and leaves every other cell of M as it was; and with
\* R as it was taken, it leaves M unchanged.
C16_SubmatrixRoundTrip ==
    mem.call.name = "submatrix" =>
        LET M == Value(Heap, "M")
            R == Value(Heap, "R")
        IN /\ mem.objects["R"].data_ # mem.objects["M"].data_
           /\ mem.at = "called" => (R = RegionOf(M) /\ M = mem.before.M)
           /\ (mem.at = "written" /\ mem.written = "R") => M = mem.before.M
           /\ (mem.at = "written" /\ mem.written = "M") => R = RegionOf(mem.before.M)
           /\ mem.at = "set" =>
                 /\ M.rows = mem.before.M.rows /\ M.cols = mem.before.M.cols
                 /\ \A i \in 0..(M.rows - 1), j \in 0..(M.cols - 1) :
                       at(M, i, j) = IF InRegion(i, j)
                                     THEN at(R, i - mem.call.region[1], j - mem.call.region[2])
                                     ELSE at(mem.before.M, i, j)
                 /\ mem.written = "none" => M = mem.before.M

\* the 2 x 2 region at (1, 1) of a 3 x 3 matrix was taken, an element of the
\* copy overwritten, and the copy written back: M differs from what it was
\* in that one cell of the region
C16_Witness ==
    /\ mem.at = "set" /\ mem.call.name = "submatrix"
    /\ mem.call.region = <<1, 1, 3, 3>>
    /\ mem.objects["M"].rows_ = 3 /\ mem.objects["M"].cols_ = 3
    /\ mem.written = "R"
    /\ Value(Heap, "M") # mem.before.M
    /\ at(Value(Heap, "M"), 0, 0) = at(mem.before.M, 0, 0)

\* C17: after copy construction or copy assignment the destination holds the
\* shape and contents of the source in a buffer of its own, the source is as
\* it was, and writing to either leaves the other as it was; after move
\* construction or move assignment the destination holds the shape and
\* contents the source had, and the source is a 0 x 0 matrix with an empty
\* buffer.
C17_CopyIsDeepMoveEmpties ==
    (mem.call.name \in {"copy", "move"} /\ mem.call.to # mem.call.from) =>
        LET d == mem.call.to
            s == mem.call.from
            was == mem.before[s]
        IN /\ mem.objects[d].data_ # mem.objects[s].data_
           /\ mem.call.name = "copy" =>
                 /\ mem.at = "called" => (Value(Heap, d) = was /\ Value(Heap, s) = was)
                 /\ (mem.at = "written" /\ mem.written = d) => Value(Heap, s) = was
                 /\ (mem.at = "written" /\ mem.written = s) => Value(Heap, d) = was
           /\ mem.call.name = "move" =>
                 /\ mem.at = "called" => Value(Heap, d) = was
                 /\ (mem.at = "written" /\ mem.written # d) => Value(Heap, d) = was
                 /\ Value(Heap, s) = [rows |-> 0, cols |-> 0, data |-> <<>>]

\* N was copy-assigned from a 2 x 3 matrix M and an element of M overwritten
\* afterwards: N still holds what M held
C17_Witness ==
    /\ mem.at = "written" /\ mem.written = "M"
    /\ mem.call = [name |-> "copy", to |-> "N", from |-> "M"]
    /\ mem.before.M.rows = 2 /\ mem.before.M.cols = 3
    /\ Value(Heap, "N") = mem.before.M
    /\ Value(Heap, "M") # mem.before.M

\* M was move-assigned to N: N holds the 2 x 3 matrix, M is empty
C17_WitnessMove ==
    /\ mem.at = "called"
    /\ mem.call = [name |-> "move", to |-> "N", from |-> "M"]
    /\ mem.before.M.rows = 2 /\ mem.before.M.cols = 3
    /\ Value(Heap, "N") = mem.before.M
    /\ mem.objects["M"].rows_ = 0 /\ mem.buffers[mem.objects["M"].data_] = <<>>

\* the kk blocks of iteration `it` that have run are the first ones, in order,
\* all by one thread
RunsInOrder(it) ==
    \A p \in 1..Len(team.runs[it]) :
        /\ team.runs[it][p].thread = team.runs[it][1].thread
        /\ team.runs[it][p].kk = (p - 1) * config.optimization.block_size

\* the number of passes of the body an iteration makes
Passes ==
    IF config.optimization.cache_friendly /\ config.optimization.use_blocking
    THEN (A.cols + config.optimization.block_size - 1) \div config.optimization.block_size
    ELSE 1

\* C18: in naive::openmp, whatever iterations the dynamic schedule hands to
\* which thread and however the threads interleave, no cell of C is written by
\* two threads: the cells of two iterations are disjoint, with blocking off an
\* iteration is one (i, j) cell and runs once, with blocking on an iteration
\* is one (ii, jj) block whose kk blocks all run on the thread that was handed
\* it, in ascending order; and the matrix returned equals that of
\* naive::sequential, for every schedule and every number of threads.
C18_NoCellHasTwoWriters ==
    team.at \in {"parallel", "joined"} =>
        LET opt == config.optimization
            its == omp_iterations(A.rows, B.cols, opt)
        IN /\ \A x \in DOMAIN team.writers : Cardinality(team.writers[x]) <= 1
           /\ \A it1 \in its, it2 \in its :
                 it1 # it2 => omp_cells(it1, A.rows, B.cols, opt)
                                 \cap omp_cells(it2, A.rows, B.cols, opt) = {}
           /\ \A it \in its :
                 /\ RunsInOrder(it)
                 /\ Len(team.runs[it]) <= Passes
                 /\ ~(opt.cache_friendly /\ opt.use_blocking) =>
                       Cardinality(omp_cells(it, A.rows, B.cols, opt)) = 1
                 /\ team.at = "joined" => Len(team.runs[it]) = Passes
           /\ team.at = "joined" => team.C = naive_sequential(A, B, opt).val

\* two threads have shared the four 1 x 1 blocks of a 2 x 2 product with
\* k = 2, each block in two passes, and have joined
C18_Witness ==
    /\ team.at = "joined" /\ team.num_threads = 2
    /\ A.rows = 2 /\ A.cols = 2 /\ B.cols = 2
    /\ config.optimization = Opt(TRUE, 1)
    /\ Len(team.runs[<<0, 0>>]) = 2
    /\ team.runs[<<0, 0>>][1].thread # team.runs[<<0, 1>>][1].thread
    /\ team.C.data # <<0, 0, 0, 0>>

\* the number of blocks of size bs that cover 0..len-1
BlockCount(len, bs) == (len + bs - 1) \div bs

\* the blocks run so far and the products added so far, in the blocked loop
\* nest: per cell the indices 0, 1, 2, ... in ascending order, none twice, the
\* cell holding their sum accumulated from 0; the visits of one (ii, jj) pair
\* next to one another, with kk ascending; at the return every index k of
\* [0, K) added to every cell and every block run
C19_Safe ==
    team.at \in {"loops", "returned"} =>
        LET bs == config.optimization.block_size
            X == team.X
        IN /\ \A x \in DOMAIN team.terms :
                 /\ \A p \in 1..Len(team.terms[x]) : team.terms[x][p] = p - 1
                 /\ team.C.data[x] = Accumulate(0, X, B, RowOf(x, B.cols), ColOf(x, B.cols),
                                                0, Len(team.terms[x]))
                 /\ team.at = "returned" => Len(team.terms[x]) = X.cols
           /\ \A p \in 1..Len(team.visits), q \in 1..Len(team.visits) :
                 (p < q /\ team.visits[p][1] = team.visits[q][1]
                        /\ team.visits[p][2] = team.visits[q][2]) =>
                     /\ team.visits[p][3] < team.visits[q][3]
                     /\ \A r \in p..q : /\ team.visits[r][1] = team.visits[p][1]
                                        /\ team.visits[r][2] = team.visits[p][2]
           /\ team.at = "returned" =>
                 Len(team.visits) = BlockCount(X.rows, bs) * BlockCount(B.cols, bs)
                                        * BlockCount(X.cols, bs)

\* C19: in the blocked naive multiply (naive::sequential, and naive::mpi on a
\* rank's rows) every k of [0, K) contributes A(i, k) * B(k, j) to C(i, j)
\* exactly once, the contributions added in ascending k to a C(i, j) that was
\* zeroed; all kk blocks of an (ii, jj) pair run one after the other; and for
\* every block size >= 1 the loops come to their end.
C19_EveryTermOnceInOrder == [](C19_Safe) /\ <>(team.at = "returned")

\* naive::sequential has run the loops on a 3 x 3 by 3 x 2 product with block
\* size 2: four blocks, and every cell has had k = 0, 1, 2 in that order
C19_Witness ==
    /\ team.at = "returned" /\ team.owner.of = "sequential"
    /\ team.X.rows = 3 /\ team.X.cols = 3 /\ B.cols = 2
    /\ config.optimization.block_size = 2
    /\ Len(team.visits) = 4
    /\ team.visits[1] = <<0, 0, 0>> /\ team.visits[2] = <<0, 0, 2>>
    /\ \A x \in DOMAIN team.terms : team.terms[x] = <<0, 1, 2>>

\* the names of the variables M1..M7
MName(i) == CASE i = 1 -> "M1" [] i = 2 -> "M2" [] i = 3 -> "M3" [] i = 4 -> "M4"
              [] i = 5 -> "M5" [] i = 6 -> "M6" [] i = 7 -> "M7"

\* C20: in the sections of strassen_recursive_omp every Mi is assigned by one
\* section only, its own, and no section reads a variable another section
\* assigns; the quadrants are combined only once all seven sections have
\* ended; and the matrix returned is the same whatever section is handed to
\* whatever thread and in whatever order, with fewer than seven threads too:
\* it is the matrix the sections give when run one after the other.
C20_SectionsAreIndependent ==
    team.at \in {"sections", "returned"} =>
        /\ \A i \in Sections :
              /\ team.writers[i] \subseteq {i}
              /\ team.M[i] \in {0, i}
              /\ \A j \in Sections :
                    j # i => MName(section_target(i)) \notin
                                 section_reads(j) \cup {MName(section_target(j))}
        /\ team.at = "sections" => team.C = Matrix(0, 0)
        /\ team.at = "returned" =>
              /\ \A i \in Sections : team.writers[i] = {i} /\ team.M[i] = i
              /\ team.C = strassen_recursive_omp(A, B, config.optimization, team.num_threads)

\* two threads have run the seven sections between them on operands of size
\* 66 and the quadrants have been combined
C20_Witness ==
    /\ team.at = "returned" /\ team.num_threads = 2
    /\ A.rows = STRASSEN_OMP_THRESHOLD + 2
    /\ team.C.rows = A.rows
    /\ team.C # Matrix(A.rows, A.rows)

\* the frames of the calls under way, and the product by the triple loop
Frames == IF team.at = "recursion" THEN {team.stack[d] : d \in 1..Len(team.stack)} ELSE {}
Product(X, Y) == naive_sequential(X, Y, DefaultOpt).val

\* the call team.last has returned and its caller has not gone on yet
JustReturned == team.at = "returned" \/ (team.at = "recursion" /\ Top.at # "entry")

\* M is X with one row and one column of zeros added
PaddedFrom(M, X) ==
    /\ M.rows = X.rows + 1 /\ M.cols = X.cols + 1
    /\ \A i \in 0..X.rows, j \in 0..X.cols :
          at(M, i, j) = (IF i < X.rows /\ j < X.cols THEN at(X, i, j) ELSE 0)

Example == A = ExampleA /\ B = ExampleI

\* C22 as claimed: the call on the example's operands, of size 3, returns A
\* by the padding path: padded to 4 x 4, recursion at the padded size, crop.
C22_AsClaimed ==
    (Example /\ team.at = "returned") =>
        /\ team.result = ExampleA
        /\ team.last.how = "padded"

\* C22, amended: on the example's operands the call pads nothing and makes
\* no recursive call at any moment: size 3 is not above the threshold, so the
\* operands go as they are to naive::openmp with the call's budget, and its
\* result, which is A, is returned.
C22_ExampleReturnsA ==
    Example =>
        /\ team.at = "recursion" =>
              /\ Len(team.stack) = 1
              /\ team.stack[1] = Entered(ExampleA, ExampleI, config.num_threads)
              /\ team.last = NoCall
        /\ team.at = "returned" =>
              /\ team.result = ExampleA
              /\ team.last.how = "naive" /\ team.last.depth = 1
              /\ team.last.X = ExampleA /\ team.last.Y = ExampleI
              /\ team.last.omp = config.num_threads

\* the call on the example's operands has returned A
C22_Witness ==
    /\ Example /\ team.at = "returned"
    /\ team.result = ExampleA
    /\ team.last.how = "naive"

\* the budget the frame at depth d was entered with, from its caller's
CallerBudget(d) ==
    IF team.stack[d - 1].at = "padded" THEN team.stack[d - 1].num_threads
    ELSE team.stack[d - 1].num_threads \div 7 + 1

\* C23: at every depth of the recursion a call on operands of size at most
\* 64 neither pads nor splits: it returns what naive::openmp returns, called
\* on the operands as they are with the budget the call was given; and a
\* call on operands of size above 64 never goes to the naive multiply: it
\* returns by the crop or by the combination of the quadrants.
C23_ThresholdDecidesBaseCase ==
    team.at \in {"recursion", "returned"} =>
        /\ \A d \in 1..Len(team.stack) :
              LET f == team.stack[d]
              IN /\ f.at \in {"padded", "sections"} => f.X.rows > 64
                 /\ (f.at = "entry" /\ f.X.rows <= 64) => f.got = <<>>
                 /\ f.num_threads = (IF d = 1 THEN config.num_threads ELSE CallerBudget(d))
        /\ team.last.how = "naive" =>
              /\ team.last.X.rows <= 64
              /\ team.last.omp = team.last.num_threads
              /\ team.last.val.rows = team.last.X.rows
              /\ team.last.X.rows <= MaxDim =>
                    team.last.val = Product(team.last.X, team.last.Y)
        /\ team.last.how \in {"padded", "split"} => team.last.X.rows > 64

\* three levels below the call on operands of size 130, a call on operands
\* of size 33 has returned the naive product with the budget left at that depth
C23_Witness ==
    /\ team.at = "recursion"
    /\ A.rows = 2 * (STRASSEN_OMP_THRESHOLD + 1)
    /\ team.last.how = "naive" /\ team.last.depth = 4
    /\ 2 * team.last.X.rows = STRASSEN_OMP_THRESHOLD + 2
    /\ team.last.omp = (config.num_threads \div 7 + 1) \div 7 + 1

\* the calls of the path, outermost first, the innermost included
PathCalls == Append(team.trail, Caller("here"))

\* C24: along every path of calls, a section's call gets its caller's budget
\* divided by 7, rounded down, plus 1, which is at least 1 and at most the
\* caller's budget; a padded call gets its caller's budget; so every budget
\* on the path is positive and none is greater than the one before it.
C24_BudgetShrinks ==
    team.at \in {"descent", "base"} =>
        \A d \in 1..Len(PathCalls) :
            LET p == PathCalls[d].num_threads
            IN /\ p >= 1
               /\ d < Len(PathCalls) =>
                     LET q == PathCalls[d + 1].num_threads
                     IN /\ q >= 1 /\ q <= p
                        /\ PathCalls[d].how = "pad" => q = p
                        /\ PathCalls[d].how = "split" =>
                              /\ 7 * (q - 1) <= p
                              /\ p < 7 * q

\* a path of three splits, with the budgets 50, 8, 2 and 1
C24_Witness ==
    /\ team.at = "base"
    /\ Len(team.trail) >= 3
    /\ team.trail[1].num_threads = 50 /\ team.trail[1].how = "split"
    /\ \E d \in 2..Len(team.trail) :
          team.trail[d].how = "split" /\ team.trail[d].num_threads = 8
    /\ team.num_threads = 1

\* C27: on every path of calls a call that pads has operands of odd size n
\* above 64, the call it makes has size n + 1 and does not pad again but
\* splits, to size (n + 1) / 2, which is less than n; a call that splits
\* has operands of even size above 64 and halves them; the path never ends
\* on a padded call waiting; and every path reaches a call that goes to the
\* naive multiply, for every size 0..MaxSize and every budget 1..MaxBudget.
C27_Safe ==
    team.at \in {"descent", "base"} =>
        /\ \A d \in 1..Len(team.trail) :
              LET c == PathCalls[d]
                  next == PathCalls[d + 1]
              IN /\ c.n > 64
                 /\ c.how = "pad" =>
                       /\ c.n % 2 = 1
                       /\ next.n = c.n + 1
                       /\ next.how \in {"split", "here"}
                       /\ d + 2 <= Len(PathCalls) =>
                             /\ 2 * PathCalls[d + 2].n = c.n + 1
                             /\ PathCalls[d + 2].n < c.n
                 /\ c.how = "split" =>
                       /\ c.n % 2 = 0
                       /\ 2 * next.n = c.n
                       /\ next.n < c.n
        /\ team.at = "base" =>
              /\ team.n <= 64
              /\ Len(team.trail) > 0 => team.trail[Len(team.trail)].how = "split"

C27_RecursionTerminates == [](C27_Safe) /\ <>(team.at = "base")

\* a path that pads twice, two levels apart: 258, 129 padded to 130, 65
\* padded to 66, 33
C27_Witness ==
    /\ team.at = "base"
    /\ Len(team.trail) = 5
    /\ team.trail[2].how = "pad" /\ team.trail[4].how = "pad"
    /\ team.trail[1].n = 4 * (STRASSEN_OMP_THRESHOLD + 1) - 2

\* the rows of worker r by the partition rule, and rows [first, first + count) of M
LocalRowsOf(r) == (A.rows \div nprocs) + (IF r < A.rows % nprocs THEN 1 ELSE 0)
RowsOf(M, first, count) ==
    [rows |-> count, cols |-> M.cols,
     data |-> SubSeq(M.data, first * M.cols + 1, (first + count) * M.cols)]
DistributedStrassen == Is(STRASSEN, MPI) \/ Is(STRASSEN, HYBRID)

\* C25: in strassen::mpi and strassen::hybrid on square operands of size n,
\* worker r computes its slice with Strassen exactly when it has n rows and
\* with the naive multiply otherwise; either way what it contributes is its
\* localRows(r) x n rows of the product, and what every worker returns after
\* the all-gather is the product a single process computes, for 1..MaxProcs
\* workers.
C25_StrassenIffSliceSquare ==
    (DistributedStrassen /\ ~StrassenBadShape) =>
        \A r \in Ranks :
            /\ frame[r] # NoFrame =>
                  LET F == frame[r]
                  IN /\ F.local_rows = LocalRowsOf(r)
                     /\ F.local_algo = (IF LocalRowsOf(r) = A.rows THEN "strassen" ELSE "naive")
                     /\ F.C_local = RowsOf(Product(A, B), F.row_offset, F.local_rows)
                     /\ config.mode = HYBRID => omp_threads[r] = config.num_threads
            /\ pc[r] = "returned" => result[r] = Return(Product(A, B))
            /\ pc[r] \in {"call", "allgather", "returned"}

\* two workers and 1 x 1 operands: worker 0 has the one row and took the
\* recursion, worker 1 has no row and took the naive multiply
C25_Witness ==
    /\ Is(STRASSEN, HYBRID) /\ AllReturned
    /\ nprocs = 2 /\ A.rows = 1 /\ B.rows = 1 /\ A.cols = 1 /\ B.cols = 1
    /\ frame[0].local_algo = "strassen" /\ frame[1].local_algo = "naive"
    /\ frame[1].local_rows = 0
    /\ result[1].val.data # <<0>>

\* C26 as claimed: with two or more workers and n >= 2 every worker has
\* fewer than n rows and multiplies with the naive multiply; and a worker
\* takes the Strassen recursion only when it is alone, or is rank 0 with n = 1.
C26_AsClaimed ==
    (DistributedStrassen /\ ~StrassenBadShape) =>
        \A r \in Ranks : frame[r] # NoFrame =>
            /\ (nprocs >= 2 /\ A.rows >= 2) =>
                  /\ frame[r].local_rows # A.rows
                  /\ frame[r].local_algo = "naive"
            /\ frame[r].local_algo = "strassen" =>
                  (nprocs = 1 \/ (r = 0 /\ A.rows = 1))

\* C26, amended: with two or more workers and n >= 2 every worker has fewer
\* than n rows and contributes rows of the product computed by the naive
\* multiply, and no worker throws; a worker takes the Strassen recursion
\* exactly when it is alone, or is rank 0 with n = 1, or the operands are
\* empty (n = 0, where every worker's 0 rows are all n rows).
C26_RecursionOnlyOnWholeOperand ==
    (DistributedStrassen /\ ~StrassenBadShape) =>
        \A r \in Ranks :
            /\ pc[r] # "threw"
            /\ frame[r] # NoFrame =>
                  /\ (nprocs >= 2 /\ A.rows >= 2) =>
                        /\ frame[r].local_rows < A.rows
                        /\ frame[r].local_algo = "naive"
                  /\ frame[r].local_algo = "strassen" <=>
                        (nprocs = 1 \/ (r = 0 /\ A.rows = 1) \/ A.rows = 0)
                  /\ frame[r].local_algo = "strassen" => frame[r].local_rows = A.rows

\* three workers and 3 x 3 operands in strassen::mpi: every worker has one
\* row, all took the naive multiply, and all have returned
C26_Witness ==
    /\ Is(STRASSEN, MPI) /\ AllReturned
    /\ nprocs = 3 /\ A.rows = 3 /\ ~StrassenBadShape
    /\ \A r \in Ranks : frame[r].local_algo = "naive" /\ frame[r].local_rows = 1

\* rank r is past both broadcasts of the matrices and has not multiplied yet
Ready(r) == mem.at = "input" /\ mem.step[r] = "ready"

\* C28 as claimed: once a rank is past the broadcasts of A and B, its A and B
\* have the shape and the contents of rank 0's A and B, with random matrices
\* and with matrices loaded from a file of any shape.
C28_AsClaimed ==
    \A r \in Ranks : Ready(r) =>
        /\ mem.A[r] = mem.A[0]
        /\ mem.B[r] = mem.B[0]

\* two ranks, --size 2 and a file with a 1 x 2 table: rank 1 is past the
\* broadcasts with a 2 x 2 matrix, rank 0 holds the 1 x 2 matrix of the file
C28_Witness ==
    /\ nprocs = 2 /\ Ready(0) /\ Ready(1)
    /\ mem.matrix_size = 2 /\ mem.file.given
    /\ mem.A[0].rows = 1 /\ mem.A[0].cols = 2
    /\ mem.A[1].rows = 2 /\ mem.A[1].cols = 2

\* the errors at flat position x of the operands, and the positions
Positions == 1..Len(mem.this.data)
AbsErrorAt(x) ==
    IF mem.this.data[x] >= mem.other.data[x] THEN mem.this.data[x] - mem.other.data[x]
    ELSE mem.other.data[x] - mem.this.data[x]
LargerAt(x) == Max(Abs(mem.this.data[x]), Abs(mem.other.data[x]))
\* the relative error at x is at most num / den
RelErrorAtMost(x, num, den) ==
    IF LargerAt(x) = 0 THEN num >= 0 ELSE AbsErrorAt(x) * den <= num * LargerAt(x)
FirstWorst(x) ==
    /\ \A y \in Positions : AbsErrorAt(y) <= AbsErrorAt(x)
    /\ \A y \in Positions : y < x => AbsErrorAt(y) < AbsErrorAt(x)

\* C29: after compare on operands of one shape, if some absolute error is
\* not zero the worst element reported is the first position in row-major
\* order where the absolute error is the largest, with the two values found
\* there; if every absolute error is zero it stays (-1, -1) with values 0;
\* and max_rel_error is the largest relative error of any position, wherever
\* the worst element is.
C29_FirstWorstElement ==
    (Compared /\ SameShape) =>
        LET res == mem.result
        IN /\ \A x \in Positions : AbsErrorAt(x) <= res.max_abs_error
           /\ IF \E x \in Positions : AbsErrorAt(x) > 0
              THEN \E x \in Positions :
                      /\ FirstWorst(x)
                      /\ res.max_abs_error = AbsErrorAt(x)
                      /\ res.worst_row * mem.this.cols + res.worst_col = x - 1
                      /\ res.worst_row >= 0
                      /\ res.worst_col >= 0 /\ res.worst_col < mem.this.cols
                      /\ res.worst_value_this = mem.this.data[x]
                      /\ res.worst_value_other = mem.other.data[x]
              ELSE /\ res.max_abs_error = 0
                   /\ res.worst_row = -1 /\ res.worst_col = -1
                   /\ res.worst_value_this = 0 /\ res.worst_value_other = 0
           /\ \A x \in Positions :
                 RelErrorAtMost(x, res.max_rel_error.num, res.max_rel_error.den)
           /\ \/ res.max_rel_error = Zero
              \/ \E x \in Positions :
                    /\ LargerAt(x) > 0
                    /\ AbsErrorAt(x) * res.max_rel_error.den
                           = res.max_rel_error.num * LargerAt(x)

\* two 2 x 2 matrices that differ by 1 at (0, 1) and at (1, 0) and agree
\* elsewhere: (0, 1), the first of the two in row-major order, is reported
C29_Witness ==
    /\ Compared /\ SameShape
    /\ mem.this.rows = 2 /\ mem.this.cols = 2
    /\ mem.this.data = <<1, 0, 1, 0>> /\ mem.other.data = <<1, 1, 0, 0>>
    /\ mem.result.worst_row = 0 /\ mem.result.worst_col = 1
    /\ mem.result.worst_value_this = 0 /\ mem.result.worst_value_other = 1
    /\ mem.result.max_abs_error = 1

\* len = r * c, settled by division so that no product leaves 32 bits
IsProduct(len, r, c) ==
    IF r = 0 \/ c = 0 THEN len = 0
    ELSE /\ (r < 0) = (c < 0)
         /\ len % Abs(c) = 0
         /\ len \div Abs(c) = Abs(r)

\* the positions (r, c) with 0 <= r < rows_ and 0 <= c < cols_ of an object
InBounds(o) == (0..(mem.objects[o].rows_ - 1)) \X (0..(mem.objects[o].cols_ - 1))

\* the buffer of object o holds rows_ * cols_ elements, and index() sends the
\* in-bounds positions, one to one, to r * cols_ + c inside the buffer
BufferMatchesShape(o) ==
    LET M == Value(Heap, o)
    IN /\ IsProduct(Len(M.data), M.rows, M.cols)
       /\ \A p \in InBounds(o) :
             /\ index(M, p[1], p[2]) = p[1] * M.cols + p[2]
             /\ index(M, p[1], p[2]) >= 0
             /\ index(M, p[1], p[2]) < Len(M.data)
       /\ \A p \in InBounds(o), q \in InBounds(o) :
             p # q => index(M, p[1], p[2]) # index(M, q[1], q[2])

\* C30: after any sequence of Matrix operations (sized construction, copy,
\* move, assignment, fill, zero, identity, element writes, set_submatrix,
\* resize, +=, -=) the buffer of every matrix holds rows * cols elements and
\* every in-bounds (r, c) maps to the distinct index r * cols + c inside it
C30_AsClaimed ==
    mem.at = "lifetime" => \A o \in Operands : Exists(o) => BufferMatchesShape(o)

\* `Matrix M(65536);` has returned: M is 65536 x 65536 and its buffer is empty
C30_Witness ==
    /\ mem.at = "lifetime"
    /\ mem.call = [name |-> "construct", on |-> "M", err |-> ""]
    /\ mem.objects["M"].rows_ = 65536 /\ mem.objects["M"].cols_ = 65536
    /\ Len(mem.buffers[mem.objects["M"].data_]) = 0

\* `M.resize(-1, 2);` has thrown on a 2 x 2 matrix: M is -1 x 2 and its
\* buffer holds 4 elements
C30_ResizeThrew ==
    /\ mem.at = "lifetime"
    /\ mem.call = [name |-> "resize", on |-> "M", err |-> "length_error"]
    /\ mem.objects["M"].rows_ = -1 /\ mem.objects["M"].cols_ = 2
    /\ Len(mem.buffers[mem.objects["M"].data_]) = 4

\* the invariant of C30 as long as every shape a call was given had a product
\* that is a non-negative int
C30_HoldsForCountableShapes ==
    (mem.at = "lifetime" /\ ~mem.uncountable) =>
        \A o \in Operands : Exists(o) => BufferMatchesShape(o)

\* MaxOps calls on objects whose buffers match their shapes, a resize that
\* grew the buffer among them
C30_CountableWitness ==
    /\ mem.at = "lifetime" /\ ~mem.uncountable /\ mem.ops = MaxOps
    /\ mem.call.name = "resize" /\ mem.call.on = "M"
    /\ mem.objects["M"].rows_ = 2 /\ mem.objects["M"].cols_ = 1
    /\ mem.buffers[mem.objects["M"].data_] = <<9, 0>>

====
